---- MODULE Spec2Model ----
(***************************************************************************)
(* Capture / session / storage coordination engine of ChatSavePro.         *)
(*                                                                         *)
(* Part I   LiveScanManager (src/popup.js) on top of StorageManager        *)
(*          (src/StorageManager.js) and chrome.storage.local.              *)
(* Part II  IndexedDBManager with its ChromeStorageFallback                *)
(*          (src/ExportScopeManager.js).                                   *)
(*                                                                         *)
(* Time is counted in minutes.  Every asynchronous chrome.storage.local    *)
(* request is an entry of the FIFO chromeQ; the JavaScript that runs when  *)
(* its callback fires (up to the next real await) is one atomic step.      *)
(***************************************************************************)
EXTENDS Integers, Sequences, FiniteSets, TLC

\* ------------------------------------------------------------------ bounds
Tabs == {7, 8}
MaxSessions == 2
MaxDeliveries == 3
MaxTicks == 1
MaxRestarts == 1
MaxQueue == 1
MaxFaults == 1
MaxStops == 2
\* config.maxBufferSize is a configuration value (default 50, popup.js:732);
\* the model runs the manager with a small configured value.
maxBufferSize == 2

\* ------------------------------------------------------- program constants
SAVE_EVERY == 10
INACTIVE_MIN == 5
RESTORE_MAX_AGE_MIN == 60
MAX_LIVE_DATA == 1000
MAX_LIVE_CHUNKS == 100

KSessions == "liveScanSessions"
KData == "liveScanData"
KChunks == "liveScanChunks"

TickSteps == {INACTIVE_MIN + 1, RESTORE_MAX_AGE_MIN}

\* fragment batches pushed by the content script (LIVE_SCAN_DATA_CHUNK)
TenBatch == <<1, 2, 3, 4, 5, 6, 7, 8, 9, 10>>
Batches == {<<1>>, TenBatch}

VARIABLES
    now,            \* Date.now(), minutes
    isInitialized,  \* LiveScanManager.isInitialized
    initRunning,    \* init() has been entered and has not returned
    sessions,       \* LiveScanManager.sessions : Map tabId -> session object
    heap,           \* the session objects, by sessionId
    messageBuffer,  \* LiveScanManager.messageBuffer : Map tabId -> array
    cache,          \* StorageManager cache : key -> value
    alias,          \* tabs whose cached table entry IS the live session object
    chromeLocal,    \* chrome.storage.local : key -> value
    chromeQ,        \* chrome.storage.local requests in flight, FIFO
    tabMsgs,        \* chrome.tabs.sendMessage requests in flight
    nextSid,        \* source of fresh session ids
    lastRet,        \* outcome of the handler that completed last
    stats,          \* per session: fragments delivered, chunks flushed
    endedMem,       \* session ids whose status was set to stopped in memory
    endedStore,     \* session ids seen stopped/expired in chrome.storage.local
    budget,         \* remaining deliveries / ticks / restarts
    db,             \* IndexedDBManager.db : "null" or "open"
    request,        \* the IDBOpenDBRequest of openDatabase
    openTimer,      \* the 10 s timer of openDatabase
    openPromise,    \* the promise openDatabase returned
    initialized,    \* IndexedDBManager.initialized
    useFallback,    \* IndexedDBManager.useFallback
    scans,          \* object store 'scans' of the primary database
    fallbackScans,  \* chrome.storage.local['chatsavepro_scans_fallback']
    calls,          \* storeScan calls in flight
    nextCall,       \* source of call ids
    nextScanId,     \* source of generated scan ids
    lastStore,      \* outcome of the storeScan call that completed last
    dbBudget,       \* remaining storeScan calls / faults / ticks
    lastRead,       \* outcome of the read / admin operation that completed last
    lastSweep,      \* the store before the performMaintenance run under test
    msgIds,         \* ids handed out by generateMessageId
    liveScan,       \* ChatSaveContentScript: liveScanActive, messageCache, chunks sent
    deepScans,      \* results of DeepScan.performDeepScan
    hybrid,         \* DeepScanCoordinator: hybridSessions, timers, live scans, calls
    scanSys,        \* ScanSystem: stored records and the outcome of the last call
    kv,             \* StorageManager: cache, chrome.storage.local, requests in flight
    bg              \* BackgroundController behind SafeExec: calls and stored scans

liveVars == <<now, isInitialized, initRunning, sessions, heap, messageBuffer,
              cache, alias, chromeLocal, chromeQ, tabMsgs, nextSid, lastRet,
              stats, endedMem, endedStore, budget>>

liveRest == <<isInitialized, initRunning, sessions, heap, messageBuffer,
              cache, alias, chromeLocal, chromeQ, tabMsgs, nextSid, lastRet,
              stats, endedMem, endedStore, budget>>

storeVars == <<db, request, openTimer, openPromise, initialized, useFallback,
               scans, fallbackScans, calls, nextCall, nextScanId, lastStore,
               dbBudget, lastRead, lastSweep, msgIds,
               liveScan, deepScans, hybrid, scanSys, kv, bg>>

extVars == <<liveScan, deepScans, hybrid, scanSys, kv, bg>>

auxVars == <<lastRead, lastSweep, msgIds, extVars>>

\* ----------------------------------------------------------------- helpers
Put(f, k, v) == [x \in DOMAIN f \cup {k} |-> IF x = k THEN v ELSE f[x]]
Remove(f, k) == [x \in DOMAIN f \ {k} |-> f[x]]
EmptyMap == [x \in {} |-> 0]

LastN(s, n) == IF Len(s) > n THEN SubSeq(s, Len(s) - n + 1, Len(s)) ELSE s

\* Object keys are strings: sessions[session.tab.id] / parseInt(tabId)
TabKey(t) == IF t = 7 THEN "7" ELSE IF t = 8 THEN "8" ELSE "9"
ParseInt(s) == IF s = "7" THEN 7 ELSE IF s = "8" THEN 8 ELSE 9

\* Map.prototype.set / get / delete on a Map kept as a set of entries
MapSetKeepsOld(m, t, s) == m \cup {[tabId |-> t, sid |-> s]}
MapSet(m, t, s) == {e \in m : e.tabId # t} \cup {[tabId |-> t, sid |-> s]}
MapHas(m, t) == \E e \in m : e.tabId = t
MapGet(m, t) == IF MapHas(m, t) THEN (CHOOSE e \in m : e.tabId = t).sid ELSE 0
MapDelete(m, t) == {e \in m : e.tabId # t}

NoRet == [op |-> "none", tab |-> 0, success |-> FALSE, threw |-> FALSE,
          sid |-> 0, preSid |-> 0, preObj |-> EmptyMap, preBuf |-> <<>>]

NoK == [kind |-> "none", sid |-> 0, tab |-> 0, msgs |-> <<>>]
GetOp(key, k) == [op |-> "get", key |-> key, val |-> <<>>, k |-> k]
SetOp(key, v, k) == [op |-> "set", key |-> key, val |-> v, k |-> k]

NewStats == [frags |-> 0, flushes |-> 0, single |-> TRUE]

\* isMonitoring(tabId)
isMonitoring(t) == MapHas(sessions, t) /\ heap[MapGet(sessions, t)].status = "active"

\* ------------------------------------------------- StorageManager + chrome
\* A cached 'liveScanSessions' table whose entry for a restored tab is the
\* live session object itself (restoreSessions stores sessionData in
\* this.sessions): a mutation of the object is visible through the cache.
SyncAlias(c, hp, al) ==
    IF KSessions \in DOMAIN c
    THEN Put(c, KSessions,
             [kk \in DOMAIN c[KSessions] |->
                 IF ParseInt(kk) \in al /\ c[KSessions][kk].sessionId \in DOMAIN hp
                 THEN hp[c[KSessions][kk].sessionId]
                 ELSE c[KSessions][kk]])
    ELSE c

\* the read-modify step of saveSessionState / storeChunkInFallback /
\* storeInFallbackStorage on the value returned by getItem
Update(key, old, k, hp) ==
    CASE k.kind = "sess"  -> Put(old, TabKey(k.tab), hp[k.sid])
      [] k.kind = "chunk" -> LastN(Append(old, [sessionId |-> k.sid, messages |-> k.msgs]),
                                   MAX_LIVE_CHUNKS)
      [] k.kind = "data"  -> LastN(Append(old, [sessionId |-> k.sid, messages |-> k.msgs]),
                                   MAX_LIVE_DATA)

EmptyOf(key) == IF key = KSessions THEN EmptyMap ELSE <<>>

\* await getItem(key); mutate; await setItem(key, value)  -- up to the first
\* chrome.storage.local request.  S = [cache, q, alias].
Begin(S, key, k, hp) ==
    IF key \in DOMAIN S.cache
    THEN LET v == Update(key, S.cache[key], k, hp)
         IN  [cache |-> Put(S.cache, key, v),
              q |-> Append(S.q, SetOp(key, v, k)),
              alias |-> IF k.kind = "sess" THEN S.alias \ {k.tab} ELSE S.alias]
    ELSE [cache |-> S.cache, q |-> Append(S.q, GetOp(key, k)), alias |-> S.alias]

EndedIn(tbl) == {tbl[kk].sessionId : kk \in {x \in DOMAIN tbl : tbl[x].status \in {"stopped", "expired"}}}
ActiveIn(tbl) == {tbl[kk].sessionId : kk \in {x \in DOMAIN tbl : tbl[x].status = "active"}}

\* ------------------------------------------------------- LiveScanManager
BumpFlush(st, sid) ==
    IF sid \in DOMAIN st THEN [st EXCEPT ![sid].flushes = @ + 1] ELSE st

\* M = [sessions, heap, messageBuffer, S, stats, endedMem] is the manager
\* state threaded through one handler; hp is the heap seen by the microtasks
\* the handler schedules.

\* storeChunk(chunk): DBHandler has no storeLiveChunk method (the call throws
\* inside the try), so the chunk always goes to storeChunkInFallback.
storeChunk(S, sid, t, msgs, hp) ==
    Begin(S, KChunks, [kind |-> "chunk", sid |-> sid, tab |-> t, msgs |-> msgs], hp)

\* flushBuffer(tabId)
flushBuffer(M, t, hp) ==
    IF ~(t \in DOMAIN M.messageBuffer) \/ Len(M.messageBuffer[t]) = 0 THEN M
    ELSE IF ~MapHas(M.sessions, t) THEN M
    ELSE LET sid == MapGet(M.sessions, t)
         IN  [M EXCEPT !.S = storeChunk(M.S, sid, t, M.messageBuffer[t], hp),
                       !.messageBuffer = Put(M.messageBuffer, t, <<>>),
                       !.stats = BumpFlush(M.stats, sid)]

\* saveSessionState(session)
saveSessionState(S, sid, t, hp) ==
    Begin(S, KSessions, [kind |-> "sess", sid |-> sid, tab |-> t, msgs |-> <<>>], hp)

\* cleanupSession(tabId)
cleanupSession(M, t, hp) ==
    IF ~MapHas(M.sessions, t) THEN M
    ELSE LET sid == MapGet(M.sessions, t)
             M1 == flushBuffer(M, t, hp)
             S0 == [M1.S EXCEPT !.cache = SyncAlias(M1.S.cache, hp, M1.S.alias)]
         IN  [sessions |-> MapDelete(M1.sessions, t),
              heap |-> hp,
              messageBuffer |-> Remove(M1.messageBuffer, t),
              S |-> saveSessionState(S0, sid, t, hp),
              stats |-> M1.stats,
              endedMem |-> M1.endedMem \cup {sid}]

RECURSIVE cleanupAll(_, _, _)
cleanupAll(M, ts, hp) ==
    IF ts = {} THEN M
    ELSE LET t == CHOOSE x \in ts : \A y \in ts : x <= y
         IN  cleanupAll(cleanupSession(M, t, hp), ts \ {t}, hp)

Stopped(hp, sm, ts) ==
    [s \in DOMAIN hp |->
        IF \E t \in ts : MapHas(sm, t) /\ MapGet(sm, t) = s
        THEN [hp[s] EXCEPT !.status = "stopped"] ELSE hp[s]]

CurM == [sessions |-> sessions, heap |-> heap, messageBuffer |-> messageBuffer,
         S |-> [cache |-> cache, q |-> chromeQ, alias |-> alias],
         stats |-> stats, endedMem |-> endedMem]

SetM(M) ==
    /\ sessions' = M.sessions
    /\ heap' = M.heap
    /\ messageBuffer' = M.messageBuffer
    /\ cache' = M.S.cache
    /\ chromeQ' = M.S.q
    /\ alias' = M.S.alias
    /\ stats' = M.stats
    /\ endedMem' = M.endedMem

PreOf(t) ==
    IF isMonitoring(t)
    THEN [preSid |-> MapGet(sessions, t), preObj |-> heap[MapGet(sessions, t)],
          preBuf |-> IF t \in DOMAIN messageBuffer THEN messageBuffer[t] ELSE <<>>]
    ELSE [preSid |-> 0, preObj |-> EmptyMap, preBuf |-> <<>>]

Ret(op, t, success, threw, sid, pre) ==
    [op |-> op, tab |-> t, success |-> success, threw |-> threw, sid |-> sid,
     preSid |-> pre.preSid, preObj |-> pre.preObj, preBuf |-> pre.preBuf]

\* ------------------------------------------------------------ Part I: Init
NoStore ==
    [cid |-> 0, outcome |-> "none", id |-> 0, dup |-> {}, added |-> FALSE,
     insertFailed |-> FALSE, fbFailed |-> FALSE, stored |-> FALSE]

NoRead == [op |-> "none", fb |-> FALSE, backend |-> "none", outcome |-> "none"]
NoSweep == [ran |-> FALSE, op |-> "none", before |-> {}]

\* IndexedDBManager constructor
\* nothing scanned, no hybrid session, nothing stored by ScanSystem
NoLiveScan == [active |-> FALSE, cache |-> {}, sent |-> <<>>]
NoHybrid ==
    [session |-> [status |-> "none", sid |-> 0, deepScanId |-> 0],
     timers |-> 0, live |-> FALSE, deep |-> {}, merged |-> {}, pc |-> "idle",
     result |-> 0, wasActive |-> FALSE, last |-> [op |-> "none", outcome |-> "none"],
     calls |-> 0, stopSid |-> 0, merges |-> <<>>]
NoCall == [op |-> "none", via |-> "none", outcome |-> "none", success |-> FALSE]
NoCleanup == [ran |-> FALSE, cutoffTime |-> 0, cleanedCount |-> [k |-> "undefined", v |-> 0]]
NoScanSys ==
    [isInitialized |-> FALSE, dbHandler |-> FALSE, clock |-> 0, calls |-> 0,
     dbScans |-> <<>>, dbLive |-> <<>>, scanResults |-> <<>>, liveScanData |-> <<>>,
     last |-> NoCall, cleanup |-> NoCleanup]
NoItem == [has |-> FALSE, value |-> 0, ttl |-> FALSE, expired |-> FALSE]
NoKvResult == [op |-> "none", result |-> 0, checked |-> FALSE, expected |-> 0,
               leaked |-> FALSE]
\* the StorageManager module after it is loaded, nothing stored yet
NoKv == [cache |-> NoItem, local |-> 0, q |-> <<>>, gen |-> 0, settled |-> -1,
         calls |-> 0, faults |-> 0, last |-> NoKvResult]
\* the background controller with no bridge call made and no scan stored by one
NoBg == [ops |-> <<>>, scans |-> {}]

ExtIdle ==
    /\ liveScan = NoLiveScan
    /\ deepScans = {}
    /\ hybrid = NoHybrid
    /\ scanSys = NoScanSys
    /\ kv = NoKv
    /\ bg = NoBg

StoreIdle(b) ==
    /\ lastRead = NoRead
    /\ lastSweep = NoSweep
    /\ msgIds = {}
    /\ ExtIdle
    /\ db = "null"
    /\ request = "none"
    /\ openTimer = "none"
    /\ openPromise = "none"
    /\ initialized = FALSE
    /\ useFallback = FALSE
    /\ scans = {}
    /\ fallbackScans = <<>>
    /\ calls = {}
    /\ nextCall = 1
    /\ nextScanId = 1
    /\ lastStore = NoStore
    /\ dbBudget = b

\* LiveScanManager constructor
LiveIdle(b) ==
    /\ isInitialized = FALSE
    /\ initRunning = FALSE
    /\ sessions = {}
    /\ heap = EmptyMap
    /\ messageBuffer = EmptyMap
    /\ cache = EmptyMap
    /\ alias = {}
    /\ chromeLocal = EmptyMap
    /\ chromeQ = <<>>
    /\ tabMsgs = {}
    /\ nextSid = 1
    /\ lastRet = NoRet
    /\ stats = EmptyMap
    /\ endedMem = {}
    /\ endedStore = {}
    /\ budget = b

LiveInit(b) ==
    /\ now = 0
    /\ LiveIdle(b)
    /\ StoreIdle([calls |-> 0, faults |-> 0, ticks |-> 0])

\* ---------------------------------------------------------- restoreSessions
RECURSIVE SetAll(_, _, _)
SetAll(m, ks, tbl) ==
    IF ks = {} THEN m
    ELSE LET kk == CHOOSE x \in ks : TRUE
         IN  SetAll(MapSet(m, ParseInt(kk), tbl[kk].sessionId), ks \ {kk}, tbl)

FreshKeys(tbl) ==
    {kk \in DOMAIN tbl : tbl[kk].status = "active"
                         /\ now - tbl[kk].lastActivity < RESTORE_MAX_AGE_MIN}
StaleKeys(tbl) ==
    {kk \in DOMAIN tbl : tbl[kk].status = "active"
                         /\ ~(now - tbl[kk].lastActivity < RESTORE_MAX_AGE_MIN)}

\* the body of restoreSessions once getItem('liveScanSessions') has returned
\* tbl, up to the chrome.storage.local.set of setItem; c is the cache then
restoreSessions(tbl, c, q) ==
    LET fresh == FreshKeys(tbl)
        tbl2 == [kk \in DOMAIN tbl |->
                    IF kk \in StaleKeys(tbl) THEN [tbl[kk] EXCEPT !.status = "expired"]
                    ELSE tbl[kk]]
        objs == {tbl[kk] : kk \in fresh}
    IN  /\ sessions' = SetAll(sessions, fresh, tbl)
        /\ heap' = [s \in DOMAIN heap \cup {o.sessionId : o \in objs} |->
                       IF \E o \in objs : o.sessionId = s
                       THEN CHOOSE o \in objs : o.sessionId = s
                       ELSE heap[s]]
        /\ messageBuffer' = [t \in DOMAIN messageBuffer \cup {ParseInt(kk) : kk \in fresh} |->
                                IF TabKey(t) \in fresh THEN <<>> ELSE messageBuffer[t]]
        /\ stats' = [s \in DOMAIN stats \cup {o.sessionId : o \in objs} |->
                        IF \E o \in objs : o.sessionId = s THEN NewStats ELSE stats[s]]
        /\ cache' = Put(c, KSessions, tbl2)
        /\ alias' = {ParseInt(kk) : kk \in fresh}
        /\ chromeQ' = Append(q, SetOp(KSessions, tbl2,
                                      [kind |-> "restoreDone", sid |-> 0, tab |-> 0, msgs |-> <<>>]))

\* init(): the manager is constructed, init() runs restoreSessions
init ==
    /\ ~isInitialized /\ ~initRunning
    /\ initRunning' = TRUE
    /\ lastRet' = NoRet
    /\ IF KSessions \in DOMAIN cache
       THEN restoreSessions(cache[KSessions], cache, chromeQ)
       ELSE /\ chromeQ' = Append(chromeQ, GetOp(KSessions,
                                 [kind |-> "restore", sid |-> 0, tab |-> 0, msgs |-> <<>>]))
            /\ UNCHANGED <<sessions, heap, messageBuffer, stats, cache, alias>>
    /\ UNCHANGED <<now, isInitialized, chromeLocal, tabMsgs, nextSid, endedMem,
                   endedStore, budget>>
    /\ UNCHANGED storeVars

\* --------------------------------------------------------- startMonitoring
\* startMonitoring(tab) up to `await this.sendMessageToTab(START_LIVE_SCAN)`
startMonitoring(t) ==
    /\ isInitialized
    /\ nextSid <= MaxSessions
    /\ ~(\E m \in tabMsgs : m.tab = t)
    /\ tabMsgs' = tabMsgs \cup {[tab |-> t, action |-> "START_LIVE_SCAN", sid |-> nextSid,
                                 inFlight |-> {}]}
    /\ nextSid' = nextSid + 1
    /\ UNCHANGED <<now, isInitialized, initRunning, sessions, heap, messageBuffer,
                   cache, alias, chromeLocal, chromeQ, lastRet, stats, endedMem,
                   endedStore, budget>>
    /\ UNCHANGED storeVars

NewSession(sid, t) ==
    [sessionId |-> sid, tabId |-> t, startTime |-> now, messageCount |-> 0,
     lastActivity |-> now, status |-> "active"]

\* startMonitoring(tab) from the answer of the content script on:
\* "ok" = {success:true}, "fail" = an answer without success, "reject" =
\* chrome.runtime.lastError
startMonitoringReply(t, outcome) ==
    /\ Len(chromeQ) <= MaxQueue
    /\ \E m \in tabMsgs :
        /\ m.tab = t /\ m.action = "START_LIVE_SCAN"
        /\ tabMsgs' = tabMsgs \ {m}
        /\ IF outcome = "ok"
           THEN /\ sessions' = MapSet(sessions, t, m.sid)
                /\ heap' = Put(heap, m.sid, NewSession(m.sid, t))
                /\ messageBuffer' = Put(messageBuffer, t, <<>>)
                /\ stats' = Put(stats, m.sid, NewStats)
                /\ lastRet' = Ret("start", t, TRUE, FALSE, m.sid, PreOf(t))
                /\ UNCHANGED <<cache, alias, chromeQ, endedMem>>
           ELSE /\ SetM(cleanupSession(CurM, t, Stopped(heap, sessions, {t})))
                /\ lastRet' = Ret("start", t, FALSE, TRUE, 0, PreOf(t))
    /\ UNCHANGED <<now, isInitialized, initRunning, chromeLocal, nextSid, endedStore, budget>>
    /\ UNCHANGED storeVars

\* ---------------------------------------------------------- stopMonitoring
\* the chunk writes of tab t that storeChunk has started and that have not
\* come back from chrome.storage.local yet
InFlightChunks(t) ==
    {chromeQ[i].k : i \in {j \in 1..Len(chromeQ) :
                              chromeQ[j].k.kind = "chunk" /\ chromeQ[j].k.tab = t}}

\* stopMonitoring(tab) up to `await this.sendMessageToTab(STOP_LIVE_SCAN)`;
\* inFlight remembers the chunk writes in flight at the call
stopMonitoring(t) ==
    /\ isInitialized
    /\ budget.stops > 0
    /\ budget' = [budget EXCEPT !.stops = @ - 1]
    /\ ~(\E m \in tabMsgs : m.tab = t)
    /\ tabMsgs' = tabMsgs \cup {[tab |-> t, action |-> "STOP_LIVE_SCAN", sid |-> 0,
                                 inFlight |-> InFlightChunks(t)]}
    /\ UNCHANGED <<now, isInitialized, initRunning, sessions, heap, messageBuffer,
                   cache, alias, chromeLocal, chromeQ, nextSid, lastRet, stats,
                   endedMem, endedStore>>
    /\ UNCHANGED storeVars

\* stopMonitoring(tab) from the answer on; the answer itself is not looked at
stopMonitoringReply(t, outcome) ==
    /\ Len(chromeQ) <= MaxQueue
    /\ \E m \in tabMsgs :
        /\ m.tab = t /\ m.action = "STOP_LIVE_SCAN"
        /\ tabMsgs' = tabMsgs \ {m}
        /\ IF outcome = "reject"
           THEN /\ lastRet' = Ret("stop", t, FALSE, TRUE, 0, PreOf(t))
                /\ UNCHANGED <<sessions, heap, messageBuffer, cache, alias, chromeQ,
                               stats, endedMem>>
           ELSE /\ SetM(cleanupSession(CurM, t, Stopped(heap, sessions, {t})))
                /\ lastRet' = Ret("stop", t, TRUE, FALSE, 0, PreOf(t))
    /\ UNCHANGED <<now, isInitialized, initRunning, chromeLocal, nextSid, endedStore, budget>>
    /\ UNCHANGED storeVars

\* ------------------------------------------------------ handleLiveScanData
\* bufferMessages(tabId, data)
bufferMessages(M, t, msgs, hp) ==
    LET mb == IF t \in DOMAIN M.messageBuffer THEN M.messageBuffer
              ELSE Put(M.messageBuffer, t, <<>>)
        M1 == [M EXCEPT !.messageBuffer = Put(mb, t, mb[t] \o msgs)]
    IN  IF Len(M1.messageBuffer[t]) >= maxBufferSize THEN flushBuffer(M1, t, hp) ELSE M1

\* processLiveData(data, session): DBHandler has no storeLiveScanData method,
\* the attempt throws and is caught; storeInFallbackStorage always runs
processLiveData(S, sid, t, msgs, hp) ==
    Begin(S, KData, [kind |-> "data", sid |-> sid, tab |-> t, msgs |-> msgs], hp)

\* handleLiveScanData(data, tabId) up to the first chrome.storage request
handleLiveScanData(t, msgs) ==
    /\ isInitialized
    /\ budget.deliveries > 0
    /\ Len(chromeQ) <= MaxQueue
    /\ budget' = [budget EXCEPT !.deliveries = @ - 1]
    /\ IF ~isMonitoring(t)
       THEN /\ lastRet' = Ret("data", t, FALSE, FALSE, 0, PreOf(t))
            /\ UNCHANGED <<sessions, heap, messageBuffer, cache, alias, chromeQ,
                           stats, endedMem>>
       ELSE LET sid == MapGet(sessions, t)
                hp == [heap EXCEPT ![sid].lastActivity = now,
                                   ![sid].messageCount = @ + Len(msgs)]
                st == [stats EXCEPT ![sid].frags = @ + Len(msgs),
                                    ![sid].single = @ /\ Len(msgs) = 1]
                M0 == [CurM EXCEPT !.heap = hp, !.stats = st,
                                   !.S.cache = SyncAlias(cache, hp, alias)]
                M1 == bufferMessages(M0, t, msgs, hp)
                M2 == [M1 EXCEPT !.S = processLiveData(M1.S, sid, t, msgs, hp)]
            IN  /\ SetM(M2)
                /\ lastRet' = Ret("data", t, TRUE, FALSE, sid, PreOf(t))
    /\ UNCHANGED <<now, isInitialized, initRunning, chromeLocal, tabMsgs, nextSid, endedStore>>
    /\ UNCHANGED storeVars

\* ------------------------------------------------- cleanupInactiveSessions
Inactive ==
    {t \in Tabs : isMonitoring(t)
                  /\ now - heap[MapGet(sessions, t)].lastActivity > INACTIVE_MIN}

cleanupInactiveSessions ==
    /\ Inactive # {}
    /\ Len(chromeQ) <= MaxQueue
    /\ SetM(cleanupAll(CurM, Inactive, Stopped(heap, sessions, Inactive)))
    /\ lastRet' = [NoRet EXCEPT !.op = "sweep", !.success = TRUE]
    /\ UNCHANGED <<now, isInitialized, initRunning, chromeLocal, tabMsgs, nextSid,
                   endedStore, budget>>
    /\ UNCHANGED storeVars

\* ------------------------------------------- chrome.storage.local callbacks
\* the callback of chrome.storage.local.get fires: the rest of getItem
\* (StorageManager.js 117-125) and the caller's code up to setItem's
\* chrome.storage.local.set.  outcome "fail" = chrome.runtime.lastError.
chromeGetDone(outcome) ==
    /\ chromeQ # <<>>
    /\ Head(chromeQ).op = "get"
    /\ outcome = "fail" => budget.faults > 0
    /\ budget' = IF outcome = "fail" THEN [budget EXCEPT !.faults = @ - 1] ELSE budget
    /\ LET o == Head(chromeQ)
           present == outcome = "ok" /\ o.key \in DOMAIN chromeLocal
           c1 == IF present THEN Put(cache, o.key, chromeLocal[o.key]) ELSE cache
           base == IF present THEN chromeLocal[o.key] ELSE EmptyOf(o.key)
       IN  IF o.k.kind = "restore"
           THEN /\ restoreSessions(base, c1, Tail(chromeQ))
                /\ UNCHANGED <<endedMem>>
           ELSE LET v == Update(o.key, base, o.k, heap)
                IN  /\ cache' = Put(c1, o.key, v)
                    /\ chromeQ' = Append(Tail(chromeQ), SetOp(o.key, v, o.k))
                    /\ alias' = IF o.key = KSessions THEN {} ELSE alias
                    /\ UNCHANGED <<sessions, heap, messageBuffer, stats, endedMem>>
    /\ UNCHANGED <<now, isInitialized, initRunning, chromeLocal, tabMsgs, nextSid,
                   lastRet, endedStore>>
    /\ UNCHANGED storeVars

\* the callback of chrome.storage.local.set fires: the rest of setItem
\* (StorageManager.js 89-94) and the code that awaited it
chromeSetDone(outcome) ==
    /\ chromeQ # <<>>
    /\ Head(chromeQ).op = "set"
    /\ outcome = "fail" => budget.faults > 0
    /\ budget' = IF outcome = "fail" THEN [budget EXCEPT !.faults = @ - 1] ELSE budget
    /\ LET o == Head(chromeQ)
           c1 == IF outcome = "ok" THEN cache ELSE Remove(cache, o.key)
           al == IF outcome # "ok" /\ o.key = KSessions THEN {} ELSE alias
           S1 == [cache |-> c1, q |-> Tail(chromeQ), alias |-> al]
           S2 == IF o.k.kind = "data" /\ heap[o.k.sid].messageCount % SAVE_EVERY = 0
                 THEN saveSessionState(S1, o.k.sid, o.k.tab, heap)
                 ELSE S1
       IN  /\ chromeLocal' = IF outcome = "ok" THEN Put(chromeLocal, o.key, o.val)
                             ELSE chromeLocal
           /\ endedStore' = IF outcome = "ok" /\ o.key = KSessions
                            THEN endedStore \cup EndedIn(o.val) ELSE endedStore
           /\ cache' = S2.cache
           /\ chromeQ' = S2.q
           /\ alias' = S2.alias
           /\ isInitialized' = (isInitialized \/ o.k.kind = "restoreDone")
           /\ initRunning' = (initRunning /\ o.k.kind # "restoreDone")
    /\ UNCHANGED <<now, sessions, heap, messageBuffer, tabMsgs, nextSid, lastRet,
                   stats, endedMem>>
    /\ UNCHANGED storeVars

\* ------------------------------------------------------------- environment
\* minutes pass; requests in flight take milliseconds, so the clock only
\* advances by minutes when none is pending
Tick(d) ==
    /\ budget.ticks > 0
    /\ chromeQ = <<>> /\ tabMsgs = {}
    /\ now' = now + d
    /\ budget' = [budget EXCEPT !.ticks = @ - 1]
    /\ UNCHANGED <<isInitialized, initRunning, sessions, heap, messageBuffer, cache,
                   alias, chromeLocal, chromeQ, tabMsgs, nextSid, lastRet, stats,
                   endedMem, endedStore>>
    /\ UNCHANGED storeVars

\* the service worker is torn down and started again: memory is lost,
\* chrome.storage.local is kept; StorageManager.init may or may not have
\* reloaded the cache before LiveScanManager.init runs
Restart(preload) ==
    /\ budget.restarts > 0
    /\ isInitialized /\ chromeQ = <<>> /\ tabMsgs = {}
    /\ budget' = [budget EXCEPT !.restarts = @ - 1]
    /\ isInitialized' = FALSE
    /\ initRunning' = FALSE
    /\ sessions' = {}
    /\ heap' = EmptyMap
    /\ messageBuffer' = EmptyMap
    /\ stats' = EmptyMap
    /\ cache' = IF preload THEN chromeLocal ELSE EmptyMap
    /\ alias' = {}
    /\ lastRet' = NoRet
    /\ UNCHANGED <<now, chromeLocal, chromeQ, tabMsgs, nextSid, endedMem, endedStore>>
    /\ UNCHANGED storeVars

LiveActions(ts) ==
    \/ init
    \/ \E t \in ts : startMonitoring(t)
    \/ \E t \in ts, oc \in {"ok", "fail", "reject"} : startMonitoringReply(t, oc)
    \/ \E t \in ts : stopMonitoring(t)
    \/ \E t \in ts, oc \in {"ok", "fail", "reject"} : stopMonitoringReply(t, oc)
    \/ \E t \in ts, b \in Batches : handleLiveScanData(t, b)
    \/ cleanupInactiveSessions
    \/ \E oc \in {"ok", "fail"} : chromeGetDone(oc)
    \/ \E oc \in {"ok", "fail"} : chromeSetDone(oc)
    \/ \E d \in TickSteps : Tick(d)

vars == <<liveVars, storeVars>>

\* one tab, no storage fault, no restart
Next == LiveActions({7})
Spec ==
    /\ LiveInit([deliveries |-> MaxDeliveries, ticks |-> MaxTicks, stops |-> MaxStops,
                 restarts |-> 0, faults |-> 0])
    /\ [][Next]_vars

\* two tabs, storage faults and a restart of the service worker
NextRestart == LiveActions(Tabs) \/ \E p \in BOOLEAN : Restart(p)
SpecRestart ==
    /\ LiveInit([deliveries |-> 1, ticks |-> MaxTicks, stops |-> MaxStops,
                 restarts |-> MaxRestarts,
                 faults |-> MaxFaults])
    /\ [][NextRestart]_vars

\* ======================================================================
\* Part II: IndexedDBManager and ChromeStorageFallback
\* ======================================================================

\* ------------------------------------------------------------------ bounds
MaxStoreCalls == 3
MaxInflight == 2
MaxDbFaults == 2
MaxDbTicks == 1
DbStart == 100
OldTimestamp == 1
\* limits of the program, run with small values
FALLBACK_CAP == 2
CLEANUP_THRESHOLD == 2
MAX_DB_SIZE == 10
DUP_SCAN_LIMIT == 2

\* ------------------------------------------------------- program constants
DUPLICATE_TTL_MIN == 30
MAX_SCAN_SIZE == 5
ESTIMATE_LIMIT == 1000

DbTickSteps == {DUPLICATE_TTL_MIN}

\* scanData passed to storeScan: title as its whitespace-separated words,
\* timestamp 0 when the caller gives none, size in MB of its JSON text, cred
\* where it carries a password / token / apiKey / cookie field: "none",
\* "top" (top level, truthy value), "empty" (top level, falsy value) or
\* "nested" (inside a nested object)
Scan(url, title, ts, size) ==
    [url |-> url, title |-> title, timestamp |-> ts, size |-> size, cred |-> "none"]
WithCred(rec, where) == [rec EXCEPT !.cred = where]
ScanInputs ==
    { Scan("u1", <<"a", "b", "c", "d">>, 0, 1),
      Scan("u1", <<"a", "b", "c", "d", "e">>, 0, 1),
      Scan("u1", <<"A", "b", "c", "d">>, 0, 1),
      Scan("u1", <<"a", "b", "c", "d">>, OldTimestamp, 1),
      Scan("u2", <<"x">>, 0, MAX_SCAN_SIZE),
      Scan("", <<>>, 0, 1) }

NoScan ==
    [id |-> 0, url |-> "", title |-> <<>>, timestamp |-> 0, createdAt |-> 0, size |-> 0,
     cred |-> "none"]

Take(s, n) == SubSeq(s, 1, IF Len(s) < n THEN Len(s) ELSE n)

\* ------------------------------------------------------------ ScanValidator
validateScanData(rec) ==
    /\ ~(rec.url = "" /\ rec.title = <<>>)
    /\ ~(rec.size > MAX_SCAN_SIZE)

sanitizeScanData(rec, id, t) ==
    [id |-> id, url |-> rec.url, title |-> rec.title,
     timestamp |-> IF rec.timestamp = 0 THEN t ELSE rec.timestamp,
     createdAt |-> t, size |-> rec.size,
     cred |-> IF rec.cred = "top" THEN "none" ELSE rec.cred]

\* ------------------------------------------------------------ array sorting
\* Array.prototype.sort((a, b) => b.timestamp - a.timestamp), which is stable
RECURSIVE InsertDesc(_, _)
InsertDesc(sorted, r) ==
    IF sorted = <<>> THEN <<r>>
    ELSE IF Head(sorted).timestamp >= r.timestamp
         THEN <<Head(sorted)>> \o InsertDesc(Tail(sorted), r)
         ELSE <<r>> \o sorted
RECURSIVE SortDesc(_)
SortDesc(s) ==
    IF s = <<>> THEN <<>>
    ELSE InsertDesc(SortDesc(SubSeq(s, 1, Len(s) - 1)), s[Len(s)])

\* records of an object store in primary-key order
RECURSIVE ById(_)
ById(S) ==
    IF S = {} THEN <<>>
    ELSE LET m == CHOOSE r \in S : \A q \in S : r.id <= q.id
         IN  <<m>> \o ById(S \ {m})

\* index('timestamp').getAll(): ascending timestamp, then primary key
RECURSIVE InsertAsc(_, _)
InsertAsc(sorted, r) ==
    IF sorted = <<>> THEN <<r>>
    ELSE IF Head(sorted).timestamp <= r.timestamp
         THEN <<Head(sorted)>> \o InsertAsc(Tail(sorted), r)
         ELSE <<r>> \o sorted
RECURSIVE ByTimestamp(_)
ByTimestamp(s) ==
    IF s = <<>> THEN <<>>
    ELSE InsertAsc(ByTimestamp(SubSeq(s, 1, Len(s) - 1)), s[Len(s)])

\* --------------------------------------------------------- duplicate check
toLowerCase(w) == IF w = "A" THEN "a" ELSE w
Words(title) == {toLowerCase(title[i]) : i \in 1..Len(title)}

\* calculateSimilarity: <<intersection.size, union.size>> of the word sets
calculateSimilarity(str1, str2) ==
    <<Cardinality(Words(str1) \cap Words(str2)),
      Cardinality(Words(str1) \cup Words(str2))>>

isSubstantialDuplicate(existingScan, newScan) ==
    IF existingScan.url # newScan.url THEN FALSE
    ELSE IF existingScan.title # <<>> /\ newScan.title # <<>>
         THEN LET sim == calculateSimilarity(existingScan.title, newScan.title)
              IN  10 * sim[1] > 8 * sim[2]
         ELSE TRUE

getScansByUrl(S, url, limit) ==
    Take(SortDesc(ById({r \in S : r.url = url})), limit)

\* id of the first recent substantial duplicate, 0 for null
checkForDuplicate(rec, S, t) ==
    IF rec.url = "" THEN 0
    ELSE LET recentScans == getScansByUrl(S, rec.url, DUP_SCAN_LIMIT)
             hits == {i \in 1..Len(recentScans) :
                        /\ t - recentScans[i].timestamp < DUPLICATE_TTL_MIN
                        /\ isSubstantialDuplicate(recentScans[i], rec)}
         IN  IF hits = {} THEN 0
             ELSE recentScans[CHOOSE i \in hits : \A j \in hits : i <= j].id

\* ------------------------------------------------------------- maintenance
RECURSIVE SumSize(_)
SumSize(s) == IF s = <<>> THEN 0 ELSE Head(s).size + SumSize(Tail(s))

\* estimateDBSize: JSON length of getScans('', 1000)
estimateDBSize(S) == SumSize(Take(SortDesc(ByTimestamp(ById(S))), ESTIMATE_LIMIT))

\* cleanupOldRecords(ratio), ratio in tenths, under a given cleanup threshold:
\* keeps the first keepCount entries of the ascending timestamp index and
\* deletes the rest.  Math.floor(n * (1 - ratio)) equals the exact floor for
\* every n below 90, which covers every store of this model.
cleanupOldRecordsCeil(S, ratio10, threshold) ==
    LET idx == ByTimestamp(ById(S))
        n == Len(idx)
        keepCount == (n * (10 - ratio10) + 9) \div 10
    IN  IF 2 * n <= threshold THEN S
        ELSE {idx[i] : i \in 1..keepCount}

cleanupOldRecordsAt(S, ratio10, threshold) ==
    LET idx == ByTimestamp(ById(S))
        n == Len(idx)
        keepCount == (n * (10 - ratio10)) \div 10
    IN  IF 2 * n <= threshold THEN S
        ELSE {idx[i] : i \in 1..keepCount}

cleanupOldRecords(S, ratio10) == cleanupOldRecordsAt(S, ratio10, CLEANUP_THRESHOLD)

performMaintenanceAt(S, threshold, maxSize) ==
    LET S1 == IF Cardinality(S) > threshold
              THEN cleanupOldRecordsAt(S, 3, threshold) ELSE S
    IN  IF 10 * estimateDBSize(S1) > 8 * maxSize
        THEN cleanupOldRecordsAt(S1, 5, threshold) ELSE S1

performMaintenance(S) == performMaintenanceAt(S, CLEANUP_THRESHOLD, MAX_DB_SIZE)

NewCall(cid, rec) ==
    [cid |-> cid, rec |-> rec, pc |-> "init", san |-> NoScan, list |-> <<>>,
     dup |-> {}, insertFailed |-> FALSE, opened |-> FALSE]

\* records of the active backend
ActiveRecords ==
    IF useFallback THEN {fallbackScans[i] : i \in 1..Len(fallbackScans)} ELSE scans

\* ids of the stored records the new record repeats: same URL, title word
\* overlap of at least 0.8, stored less than 30 minutes ago
DupSet(rec) ==
    {r.id : r \in {q \in ActiveRecords :
                     /\ rec.url # "" /\ q.url = rec.url
                     /\ q.title # <<>> /\ rec.title # <<>>
                     /\ LET sim == calculateSimilarity(q.title, rec.title)
                        IN  10 * sim[1] >= 8 * sim[2]
                     /\ now - q.createdAt < DUPLICATE_TTL_MIN}}

\* the call returns (outcome "id") or throws (outcome "error")
Return(c, outcome, id, added, fbFailed, list) ==
    /\ calls' = calls \ {c}
    /\ lastStore' = [cid |-> c.cid, outcome |-> outcome, id |-> id, dup |-> c.dup,
                     added |-> added, insertFailed |-> c.insertFailed,
                     fbFailed |-> fbFailed,
                     stored |-> \E i \in 1..Len(list) : list[i].id = id]

Goto(c, d) ==
    /\ calls' = (calls \ {c}) \cup {d}
    /\ UNCHANGED lastStore

\* storeScan from validateScanData up to its first await
Dispatch(c0) ==
    LET c == [c0 EXCEPT !.dup = DupSet(c0.rec), !.opened = FALSE]
    IN  IF ~validateScanData(c.rec)
        THEN /\ calls' = calls \ {c0}
             /\ lastStore' = [NoStore EXCEPT !.cid = c.cid, !.outcome = "error"]
             /\ UNCHANGED nextScanId
        ELSE IF useFallback
        THEN /\ calls' = (calls \ {c0}) \cup {[c EXCEPT !.pc = "fbGet"]}
             /\ UNCHANGED <<lastStore, nextScanId>>
        ELSE IF c.rec.url = ""
        THEN /\ calls' = (calls \ {c0}) \cup
                           {[c EXCEPT !.pc = "insert",
                                      !.san = sanitizeScanData(c.rec, nextScanId, now)]}
             /\ nextScanId' = nextScanId + 1
             /\ UNCHANGED lastStore
        ELSE /\ calls' = (calls \ {c0}) \cup {[c EXCEPT !.pc = "dup"]}
             /\ UNCHANGED <<lastStore, nextScanId>>

Fault(oc) ==
    IF oc = "fail"
    THEN dbBudget.faults > 0 /\ dbBudget' = [dbBudget EXCEPT !.faults = @ - 1]
    ELSE UNCHANGED dbBudget

\* --------------------------------------------------- init / openDatabase
\* init() called by a client: indexedDB.open is requested and the timer set
dbInit ==
    /\ request = "none"
    /\ request' = "pending"
    /\ openTimer' = "armed"
    /\ openPromise' = "pending"
    /\ UNCHANGED <<db, initialized, useFallback, scans, fallbackScans, calls,
                   nextCall, nextScanId, lastStore, dbBudget>>
    /\ UNCHANGED liveVars
    /\ UNCHANGED auxVars

\* request.onsuccess, then the rest of _initialize when the promise was
\* still pending
openSuccess ==
    /\ request = "pending"
    /\ request' = "success"
    /\ openTimer' = IF openTimer = "armed" THEN "cleared" ELSE openTimer
    /\ db' = "open"
    /\ IF openPromise = "pending"
       THEN /\ openPromise' = "resolved"
            /\ scans' = performMaintenance(scans)
            /\ initialized' = TRUE
            /\ useFallback' = FALSE
       ELSE UNCHANGED <<openPromise, scans, initialized, useFallback>>
    /\ UNCHANGED <<fallbackScans, calls, nextCall, nextScanId, lastStore, dbBudget>>
    /\ UNCHANGED liveVars
    /\ UNCHANGED auxVars

\* the catch branch of _initialize: fallbackManager.init()
RejectOpen ==
    IF openPromise = "pending"
    THEN /\ openPromise' = "rejected"
         /\ initialized' = TRUE
         /\ useFallback' = TRUE
    ELSE UNCHANGED <<openPromise, initialized, useFallback>>

\* the open request fails: request.onerror
openError ==
    /\ request = "pending"
    /\ request' = "error"
    /\ openTimer' = IF openTimer = "armed" THEN "cleared" ELSE openTimer
    /\ RejectOpen
    /\ UNCHANGED <<db, scans, fallbackScans, calls, nextCall, nextScanId,
                   lastStore, dbBudget>>
    /\ UNCHANGED liveVars
    /\ UNCHANGED auxVars

\* the timer fires with the request still pending and calls
\* request.onerror(new Event('timeout')); the handler reads request.error
\* to build its message.  On a request that is not done the IndexedDB
\* standard has that getter throw InvalidStateError (errorThrows), which
\* leaves both reject calls unexecuted; the other outcome is a getter that
\* yields null
openTimeout(errorThrows) ==
    /\ openTimer = "armed" /\ request = "pending"
    /\ openTimer' = "fired"
    /\ IF errorThrows
       THEN UNCHANGED <<openPromise, initialized, useFallback>>
       ELSE RejectOpen
    /\ UNCHANGED <<db, request, scans, fallbackScans, calls, nextCall,
                   nextScanId, lastStore, dbBudget>>
    /\ UNCHANGED liveVars
    /\ UNCHANGED auxVars

\* --------------------------------------------------------------- storeScan
storeScan(rec) ==
    /\ dbBudget.calls > 0
    /\ Cardinality(calls) < MaxInflight
    /\ dbBudget' = [dbBudget EXCEPT !.calls = @ - 1]
    /\ nextCall' = nextCall + 1
    /\ IF initialized
       THEN /\ Dispatch(NewCall(nextCall, rec))
            /\ UNCHANGED <<request, openTimer, openPromise>>
       ELSE /\ calls' = calls \cup
                         {[NewCall(nextCall, rec) EXCEPT !.opened = (request = "none")]}
            /\ IF request = "none"
               THEN /\ request' = "pending"
                    /\ openTimer' = "armed"
                    /\ openPromise' = "pending"
               ELSE UNCHANGED <<request, openTimer, openPromise>>
            /\ UNCHANGED <<lastStore, nextScanId>>
    /\ UNCHANGED <<db, initialized, useFallback, scans, fallbackScans>>
    /\ UNCHANGED liveVars
    /\ UNCHANGED auxVars

\* 'await this.init()' returns
storeScanResume(cid) ==
    /\ initialized
    /\ \E c \in calls :
          /\ c.cid = cid /\ c.pc = "init"
          /\ Dispatch(c)
    /\ UNCHANGED <<db, request, openTimer, openPromise, initialized, useFallback,
                   scans, fallbackScans, nextCall, dbBudget>>
    /\ UNCHANGED liveVars
    /\ UNCHANGED auxVars

\* checkForDuplicate returns: the query of getScansByUrl has completed or
\* failed (a failure is caught and counts as no duplicate)
dupDone(cid, oc) ==
    /\ Fault(oc)
    /\ \E c \in calls :
          /\ c.cid = cid /\ c.pc = "dup"
          /\ LET duplicateId == IF oc = "ok" THEN checkForDuplicate(c.rec, scans, now)
                                ELSE 0
             IN  IF duplicateId # 0
                 THEN /\ Return(c, "id", duplicateId, FALSE, FALSE, <<>>)
                      /\ UNCHANGED nextScanId
                 ELSE /\ Goto(c, [c EXCEPT !.pc = "insert",
                                   !.san = sanitizeScanData(c.rec, nextScanId, now)])
                      /\ nextScanId' = nextScanId + 1
    /\ UNCHANGED <<db, request, openTimer, openPromise, initialized, useFallback,
                   scans, fallbackScans, nextCall>>
    /\ UNCHANGED liveVars
    /\ UNCHANGED auxVars

\* insertScan settles; on failure the catch block of storeScan runs
insertDone(cid, oc) ==
    /\ Fault(oc)
    /\ \E c \in calls :
          /\ c.cid = cid /\ c.pc = "insert"
          /\ IF oc = "ok"
             THEN /\ scans' = scans \cup {c.san}
                  /\ Goto(c, [c EXCEPT !.pc = "maint"])
                  /\ UNCHANGED useFallback
             ELSE IF ~useFallback
             THEN /\ useFallback' = TRUE
                  /\ Goto(c, [c EXCEPT !.pc = "fbGet", !.insertFailed = TRUE])
                  /\ UNCHANGED scans
             ELSE /\ calls' = calls \ {c}
                  /\ lastStore' = [NoStore EXCEPT !.cid = c.cid, !.outcome = "error",
                                                  !.dup = c.dup, !.insertFailed = TRUE]
                  /\ UNCHANGED <<scans, useFallback>>
    /\ UNCHANGED <<db, request, openTimer, openPromise, initialized, fallbackScans,
                   nextCall, nextScanId>>
    /\ UNCHANGED liveVars
    /\ UNCHANGED auxVars

\* performMaintenance after the insert (its transactions run back to back;
\* any failure inside is caught), then storeScan returns the new id
maintDone(cid, oc) ==
    /\ Fault(oc)
    /\ \E c \in calls :
          /\ c.cid = cid /\ c.pc = "maint"
          /\ scans' = IF useFallback \/ oc = "fail" THEN scans
                      ELSE performMaintenance(scans)
          /\ Return(c, "id", c.san.id, TRUE, FALSE, ById(scans'))
    /\ UNCHANGED <<db, request, openTimer, openPromise, initialized, useFallback,
                   fallbackScans, nextCall, nextScanId>>
    /\ UNCHANGED liveVars
    /\ UNCHANGED auxVars

\* ChromeStorageFallback.storeScan: callback of chrome.storage.local.get
fbGetDone(cid, oc) ==
    /\ Fault(oc)
    /\ \E c \in calls :
          /\ c.cid = cid /\ c.pc = "fbGet"
          /\ IF oc = "ok"
             THEN LET sanitizedData == sanitizeScanData(c.rec, nextScanId, now)
                      recentScans == Take(SortDesc(Append(fallbackScans, sanitizedData)),
                                          FALLBACK_CAP)
                  IN  /\ Goto(c, [c EXCEPT !.pc = "fbSet", !.san = sanitizedData,
                                           !.list = recentScans])
                      /\ nextScanId' = nextScanId + 1
             ELSE /\ Return(c, "error", 0, FALSE, TRUE, <<>>)
                  /\ UNCHANGED nextScanId
    /\ UNCHANGED <<db, request, openTimer, openPromise, initialized, useFallback,
                   scans, fallbackScans, nextCall>>
    /\ UNCHANGED liveVars
    /\ UNCHANGED auxVars

\* ChromeStorageFallback.storeScan: callback of chrome.storage.local.set
fbSetDone(cid, oc) ==
    /\ Fault(oc)
    /\ \E c \in calls :
          /\ c.cid = cid /\ c.pc = "fbSet"
          /\ IF oc = "ok"
             THEN /\ fallbackScans' = c.list
                  /\ Return(c, "id", c.san.id, TRUE, FALSE, c.list)
             ELSE /\ UNCHANGED fallbackScans
                  /\ Return(c, "error", 0, FALSE, TRUE, <<>>)
    /\ UNCHANGED <<db, request, openTimer, openPromise, initialized, useFallback,
                   scans, nextCall, nextScanId>>
    /\ UNCHANGED liveVars
    /\ UNCHANGED auxVars

\* minutes pass while no storeScan call is in flight
StoreTick(d) ==
    /\ dbBudget.ticks > 0
    /\ calls = {}
    /\ now' = now + d
    /\ dbBudget' = [dbBudget EXCEPT !.ticks = @ - 1]
    /\ UNCHANGED <<db, request, openTimer, openPromise, initialized, useFallback,
                   scans, fallbackScans, calls, nextCall, nextScanId, lastStore>>
    /\ UNCHANGED liveRest
    /\ UNCHANGED auxVars

CallIds == 1..MaxStoreCalls

NextStore ==
    \/ dbInit
    \/ openSuccess
    \/ openError
    \/ \E th \in BOOLEAN : openTimeout(th)
    \/ \E rec \in ScanInputs : storeScan(rec)
    \/ \E cid \in CallIds : storeScanResume(cid)
    \/ \E cid \in CallIds, oc \in {"ok", "fail"} : dupDone(cid, oc)
    \/ \E cid \in CallIds, oc \in {"ok", "fail"} : insertDone(cid, oc)
    \/ \E cid \in CallIds, oc \in {"ok", "fail"} : maintDone(cid, oc)
    \/ \E cid \in CallIds, oc \in {"ok", "fail"} : fbGetDone(cid, oc)
    \/ \E cid \in CallIds, oc \in {"ok", "fail"} : fbSetDone(cid, oc)
    \/ \E d \in DbTickSteps : StoreTick(d)

StoreInit ==
    /\ now = DbStart
    /\ LiveIdle([deliveries |-> 0, ticks |-> 0, stops |-> 0, restarts |-> 0,
                 faults |-> 0])
    /\ StoreIdle([calls |-> MaxStoreCalls, faults |-> MaxDbFaults, ticks |-> MaxDbTicks])

SpecStore == StoreInit /\ [][NextStore]_vars


\* ----------------------------------------- reads and administration calls
\* every call below is one request to its backend; oc is the request's fate
ReadDone(op, backend, outcome) ==
    lastRead' = [op |-> op, fb |-> useFallback, backend |-> backend,
                 outcome |-> outcome]

Outcome(oc) == IF oc = "ok" THEN "ok" ELSE "error"

\* getScans(query, limit, offset): a failed query rejects the returned promise
callGetScans(oc) ==
    /\ initialized
    /\ Fault(oc)
    /\ ReadDone("getScans", IF useFallback THEN "fallback" ELSE "primary", Outcome(oc))
    /\ UNCHANGED <<db, request, openTimer, openPromise, initialized, useFallback,
                   scans, fallbackScans, calls, nextCall, nextScanId, lastStore>>
    /\ UNCHANGED <<lastSweep, msgIds>>
    /\ UNCHANGED extVars
    /\ UNCHANGED liveVars

\* exportScans(): getScans('', 5000)
callExportScans(oc) ==
    /\ initialized
    /\ Fault(oc)
    /\ ReadDone("exportScans", IF useFallback THEN "fallback" ELSE "primary", Outcome(oc))
    /\ UNCHANGED <<db, request, openTimer, openPromise, initialized, useFallback,
                   scans, fallbackScans, calls, nextCall, nextScanId, lastStore>>
    /\ UNCHANGED <<lastSweep, msgIds>>
    /\ UNCHANGED extVars
    /\ UNCHANGED liveVars

\* getScansByUrl(url, limit): no useFallback test; this.db.transaction throws
\* inside the try when this.db is null, and the promise is rejected
callGetScansByUrl(oc) ==
    /\ initialized
    /\ Fault(oc)
    /\ IF db = "null" THEN ReadDone("getScansByUrl", "none", "error")
       ELSE ReadDone("getScansByUrl", "primary", Outcome(oc))
    /\ UNCHANGED <<db, request, openTimer, openPromise, initialized, useFallback,
                   scans, fallbackScans, calls, nextCall, nextScanId, lastStore>>
    /\ UNCHANGED <<lastSweep, msgIds>>
    /\ UNCHANGED extVars
    /\ UNCHANGED liveVars

\* getScanCount(): no initialized / useFallback test
callGetScanCount(oc) ==
    /\ Fault(oc)
    /\ IF db = "null" THEN ReadDone("getScanCount", "none", "error")
       ELSE ReadDone("getScanCount", "primary", Outcome(oc))
    /\ UNCHANGED <<db, request, openTimer, openPromise, initialized, useFallback,
                   scans, fallbackScans, calls, nextCall, nextScanId, lastStore>>
    /\ UNCHANGED <<lastSweep, msgIds>>
    /\ UNCHANGED extVars
    /\ UNCHANGED liveVars

\* clearAllScans()
callClearAllScans(oc) ==
    /\ initialized
    /\ Fault(oc)
    /\ ReadDone("clearAllScans", IF useFallback THEN "fallback" ELSE "primary",
                Outcome(oc))
    /\ fallbackScans' = IF useFallback /\ oc = "ok" THEN <<>> ELSE fallbackScans
    /\ scans' = IF ~useFallback /\ oc = "ok" THEN {} ELSE scans
    /\ UNCHANGED <<db, request, openTimer, openPromise, initialized, useFallback,
                   calls, nextCall, nextScanId, lastStore>>
    /\ UNCHANGED <<lastSweep, msgIds>>
    /\ UNCHANGED extVars
    /\ UNCHANGED liveVars

\* performMaintenance() called directly: returns at once on the fallback,
\* catches every failure on the primary store
callPerformMaintenance(oc) ==
    /\ Fault(oc)
    /\ ReadDone("performMaintenance",
                IF useFallback THEN "skipped" ELSE IF db = "null" THEN "none" ELSE "primary",
                "ok")
    /\ scans' = IF useFallback \/ db = "null" \/ oc = "fail" THEN scans
                ELSE performMaintenance(scans)
    /\ UNCHANGED <<db, request, openTimer, openPromise, initialized, useFallback,
                   fallbackScans, calls, nextCall, nextScanId, lastStore>>
    /\ UNCHANGED <<lastSweep, msgIds>>
    /\ UNCHANGED extVars
    /\ UNCHANGED liveVars

ReadInputs ==
    { Scan("u1", <<"a", "b", "c", "d">>, 0, 1),
      WithCred(Scan("u2", <<"x">>, 0, 1), "top"),
      WithCred(Scan("u2", <<"y">>, 0, 1), "empty"),
      WithCred(Scan("u2", <<"z">>, 0, 1), "nested"),
      Scan("", <<>>, 0, 1) }

NextRead ==
    \/ dbInit
    \/ openSuccess
    \/ openError
    \/ \E th \in BOOLEAN : openTimeout(th)
    \/ \E rec \in ReadInputs : storeScan(rec)
    \/ \E cid \in CallIds : storeScanResume(cid)
    \/ \E cid \in CallIds, oc \in {"ok", "fail"} : dupDone(cid, oc)
    \/ \E cid \in CallIds, oc \in {"ok", "fail"} : insertDone(cid, oc)
    \/ \E cid \in CallIds, oc \in {"ok", "fail"} : maintDone(cid, oc)
    \/ \E cid \in CallIds, oc \in {"ok", "fail"} : fbGetDone(cid, oc)
    \/ \E cid \in CallIds, oc \in {"ok", "fail"} : fbSetDone(cid, oc)
    \/ \E oc \in {"ok", "fail"} : callGetScans(oc)
    \/ \E oc \in {"ok", "fail"} : callExportScans(oc)
    \/ \E oc \in {"ok", "fail"} : callGetScansByUrl(oc)
    \/ \E oc \in {"ok", "fail"} : callGetScanCount(oc)
    \/ \E oc \in {"ok", "fail"} : callClearAllScans(oc)
    \/ \E oc \in {"ok", "fail"} : callPerformMaintenance(oc)

MaxReadCalls == 2
MaxReadFaults == 1

ReadInit ==
    /\ now = DbStart
    /\ LiveIdle([deliveries |-> 0, ticks |-> 0, stops |-> 0, restarts |-> 0,
                 faults |-> 0])
    /\ StoreIdle([calls |-> MaxReadCalls, faults |-> MaxReadFaults, ticks |-> 0])

SpecRead == ReadInit /\ [][NextRead]_vars


\* ------------------------------------------- maintenance on a filled store
\* the store as a previous run of the extension left it: MaintRecords : MaintThreshold
\* is 1200 : 1000, sizes are in MB against the 50 MB ceiling
MaintThreshold == 30
MaintRecords == 36
MaintMaxSize == 50

\* n records with ids and timestamps 1..n, the k oldest of the largest valid size
SeedStore(n, k) ==
    { [id |-> i, url |-> "u1", title |-> <<"a">>, timestamp |-> i, createdAt |-> i,
       size |-> IF i <= k THEN MAX_SCAN_SIZE ELSE 1, cred |-> "none"] : i \in 1..n }

\* performMaintenance() on the open primary store, every request succeeding
runMaintenance ==
    /\ db = "open" /\ ~useFallback
    /\ scans' = performMaintenanceAt(scans, MaintThreshold, MaintMaxSize)
    /\ lastSweep' = [ran |-> TRUE, op |-> "performMaintenance", before |-> scans]
    /\ UNCHANGED <<db, request, openTimer, openPromise, initialized, useFallback,
                   fallbackScans, calls, nextCall, nextScanId, lastStore, dbBudget>>
    /\ UNCHANGED <<lastRead, msgIds>>
    /\ UNCHANGED extVars
    /\ UNCHANGED liveVars

\* cleanupOldRecords(ratio) on the open primary store
runCleanup(ratio10) ==
    /\ db = "open" /\ ~useFallback
    /\ scans' = cleanupOldRecordsAt(scans, ratio10, MaintThreshold)
    /\ lastSweep' = [ran |-> TRUE, op |-> "cleanupOldRecords", before |-> scans]
    /\ UNCHANGED <<db, request, openTimer, openPromise, initialized, useFallback,
                   fallbackScans, calls, nextCall, nextScanId, lastStore, dbBudget>>
    /\ UNCHANGED <<lastRead, msgIds>>
    /\ UNCHANGED extVars
    /\ UNCHANGED liveVars

NextMaint ==
    \/ runMaintenance
    \/ \E ratio10 \in {3, 5} : runCleanup(ratio10)

MaintInit ==
    /\ now = DbStart
    /\ LiveIdle([deliveries |-> 0, ticks |-> 0, stops |-> 0, restarts |-> 0,
                 faults |-> 0])
    /\ lastRead = NoRead
    /\ lastSweep = NoSweep
    /\ msgIds = {}
    /\ ExtIdle
    /\ db = "open"
    /\ request = "success"
    /\ openTimer = "cleared"
    /\ openPromise = "resolved"
    /\ initialized = TRUE
    /\ useFallback = FALSE
    /\ \E n \in 0..MaintRecords : \E k \in 0..n : scans = SeedStore(n, k)
    /\ fallbackScans = <<>>
    /\ calls = {}
    /\ nextCall = 1
    /\ nextScanId = MaintRecords + 1
    /\ lastStore = NoStore
    /\ dbBudget = [calls |-> 0, faults |-> 0, ticks |-> 0]

SpecMaint == MaintInit /\ [][NextMaint]_vars

\* ------------------------------------------- contentScript message identity
\* strings are sequences of character codes; a 32-bit integer is the pair
\* <<high 16 bits, low 16 bits>> of its two's complement pattern
PrefixLen == 2
MaxIds == 2
IdTicks == 2
Underscore == 95

Word(hi, lo) == <<hi % 65536, lo % 65536>>

\* hash << 5
Shl5(w) == Word(w[1] * 32 + (w[2] \div 2048), w[2] * 32)

\* a - b and a + char, then 'hash & hash' (ToInt32)
Sub32(a, b) ==
    LET lo == a[2] - b[2]
        borrow == IF lo < 0 THEN 1 ELSE 0
    IN  Word(a[1] - b[1] - borrow + 65536, lo + 65536)
AddChar(a, ch) ==
    LET lo == a[2] + ch
    IN  Word(a[1] + (lo \div 65536), lo)

\* Math.abs of the signed value
Abs32(w) == IF w[1] >= 32768 THEN Sub32(<<0, 0>>, w) ELSE w

\* Number.prototype.toString(36): digits, most significant first
RECURSIVE Digits36(_)
Digits36(w) ==
    LET hiQ == w[1] \div 36
        mid == (w[1] % 36) * 65536 + w[2]
        q == <<hiQ, mid \div 36>>
    IN  IF q = <<0, 0>> THEN <<mid % 36>> ELSE Append(Digits36(q), mid % 36)
toString36(w) == Digits36(w)

\* for each character: hash = ((hash << 5) - hash) + char; hash = hash & hash;
\* every intermediate value is a 32-bit word
Words32 == (0..65535) \X (0..65535)
RECURSIVE HashLoop(_, _)
HashLoop(hash, str) ==
    IF str = <<>> THEN hash
    ELSE LET next == AddChar(Sub32(Shl5(hash), hash), Head(str))
         IN  CASE next \in Words32 -> HashLoop(next, Tail(str))

\* content.substring(0, 50), with PrefixLen for 50
substring(content) == Take(content, PrefixLen)

\* generateMessageId(element, content) at time t: 'msg_' + abs(hash) in base
\* 36 + '_' + Date.now() in base 36
generateMessageId(content, position, platform, t) ==
    LET str == substring(content) \o <<Underscore>> \o position \o <<Underscore>> \o platform
    IN  <<toString36(Abs32(HashLoop(<<0, 0>>, str))), toString36(<<0, t>>)>>

\* text of a message element, `${top}_${left}` of its rectangle, detectPlatform()
Contents == {<<97, 98>>, <<97, 98, 99>>, <<98, 97, 98>>}
Positions == {<<49, 95, 50>>, <<51, 95, 50>>}
Platforms == {<<87, 101, 98>>, <<68, 105, 115, 99, 111, 114, 100>>}

\* extractMessage...: an element is given its id
assignMessageId(content, position, platform) ==
    /\ Cardinality(msgIds) < MaxIds
    /\ msgIds' = msgIds \cup
           {[content |-> content, position |-> position, platform |-> platform,
             at |-> now, id |-> generateMessageId(content, position, platform, now)]}
    /\ UNCHANGED <<now, lastRead, lastSweep>>
    /\ UNCHANGED extVars
    /\ UNCHANGED liveRest
    /\ UNCHANGED <<db, request, openTimer, openPromise, initialized, useFallback,
                   scans, fallbackScans, calls, nextCall, nextScanId, lastStore, dbBudget>>

\* a millisecond passes
IdTick ==
    /\ now < DbStart + IdTicks
    /\ now' = now + 1
    /\ UNCHANGED liveRest
    /\ UNCHANGED storeVars

NextId ==
    \/ \E content \in Contents, position \in Positions, platform \in Platforms :
           assignMessageId(content, position, platform)
    \/ IdTick

IdInit ==
    /\ now = DbStart
    /\ LiveIdle([deliveries |-> 0, ticks |-> 0, stops |-> 0, restarts |-> 0,
                 faults |-> 0])
    /\ StoreIdle([calls |-> 0, faults |-> 0, ticks |-> 0])

SpecId == IdInit /\ [][NextId]_vars

\* ------------------------------------------- contentScript live extraction
MaxChunks == 2
MaxBatch == 2

\* a message-like node of the page: its text and its rectangle
Nodes == {[content |-> c, position |-> p] : c \in Contents, p \in {<<49, 95, 50>>}}
PagePlatform == <<87, 101, 98>>

\* what the Deduplicator is to tell apart: content prefix, position, platform
Identity(node) ==
    [prefix |-> substring(node.content), position |-> node.position,
     platform |-> PagePlatform]

\* extractMessageData(element): the message with its generated id
extractMessageData(node, t) ==
    [id |-> generateMessageId(node.content, node.position, PagePlatform, t),
     fragment |-> Identity(node)]

\* scanNodeForNewMessages / extractMessageFromTextMutation over the nodes of
\* a batch, in order: a message is kept when messageCache does not hold its id
RECURSIVE scanBatch(_, _, _, _)
scanBatch(batch, messageCache, newMessages, t) ==
    IF batch = <<>> THEN [cache |-> messageCache, newMessages |-> newMessages]
    ELSE LET message == extractMessageData(Head(batch), t)
         IN  IF message.id \in messageCache
             THEN scanBatch(Tail(batch), messageCache, newMessages, t)
             ELSE scanBatch(Tail(batch), messageCache \cup {message.id},
                            Append(newMessages, message), t)

\* scanForMessages(): one message per distinct id, messageCache not consulted
RECURSIVE scanForMessages(_, _, _, _)
scanForMessages(elements, seenMessages, messages, t) ==
    IF elements = <<>> THEN messages
    ELSE LET messageData == extractMessageData(Head(elements), t)
         IN  IF messageData.id \in seenMessages
             THEN scanForMessages(Tail(elements), seenMessages, messages, t)
             ELSE scanForMessages(Tail(elements), seenMessages \cup {messageData.id},
                                  Append(messages, messageData), t)

Batches21 == UNION {[1..n -> Nodes] : n \in 1..MaxBatch}

Chunk(scanType, messages) ==
    [scanType |-> scanType, fragments |-> {messages[i].fragment : i \in 1..Len(messages)}]

LiveUnchanged ==
    /\ UNCHANGED <<now, lastRead, lastSweep, msgIds, deepScans, hybrid, scanSys, kv, bg>>
    /\ UNCHANGED liveRest
    /\ UNCHANGED <<db, request, openTimer, openPromise, initialized, useFallback,
                   scans, fallbackScans, calls, nextCall, nextScanId, lastStore, dbBudget>>

\* startLiveScan(): nothing when already active; else clears messageCache and
\* sends the initial scan of the page
startLiveScan(page) ==
    /\ Len(liveScan.sent) < MaxChunks
    /\ IF liveScan.active THEN UNCHANGED liveScan
       ELSE LET initialMessages == scanForMessages(page, {}, <<>>, now)
            IN  liveScan' = [active |-> TRUE, cache |-> {},
                             sent |-> IF initialMessages = <<>> THEN liveScan.sent
                                      ELSE Append(liveScan.sent,
                                                  Chunk("live_initial", initialMessages))]
    /\ LiveUnchanged

stopLiveScan ==
    /\ liveScan' = [liveScan EXCEPT !.active = FALSE]
    /\ LiveUnchanged

\* handleMutations(mutations): returns at once while no live scan is active
handleMutations(batch) ==
    /\ Len(liveScan.sent) < MaxChunks
    /\ IF ~liveScan.active THEN UNCHANGED liveScan
       ELSE LET r == scanBatch(batch, liveScan.cache, <<>>, now)
            IN  liveScan' = [liveScan EXCEPT
                                !.cache = r.cache,
                                !.sent = IF r.newMessages = <<>> THEN @
                                         ELSE Append(@, Chunk("live_update", r.newMessages))]
    /\ LiveUnchanged

NextLive ==
    \/ \E page \in {<<>>} \cup Batches21 : startLiveScan(page)
    \/ stopLiveScan
    \/ \E batch \in Batches21 : handleMutations(batch)
    \/ IdTick

SpecLive == IdInit /\ [][NextLive]_vars

\* ------------------------------------------------------ DeepScan (page scan)
MaxDeepScans == 2
MAX_ELEMENTS == 1000

\* visible elements of a page: text and the extraction selectors matching it
\* (class="message" matches both '[class*="message"]' and '.message')
Elements ==
    { [text |-> <<104, 105, 33>>, selectors |-> {"[class*=message]", ".message"}],
      [text |-> <<111, 107, 46>>, selectors |-> {"[role=listitem]"}],
      [text |-> <<111, 107>>,     selectors |-> {".msg", "[class*=msg]"}] }
Pages ==
    {<<>>} \cup {<<e>> : e \in Elements}
           \cup {<<p[1], p[2]>> : p \in {q \in Elements \X Elements : q[1] # q[2]}}
ExtractionSelectors ==
    <<"[class*=message]", "[class*=msg]", ".message", ".msg", "[role=listitem]">>

\* extractMessages(): one message per (selector, matching element) whose
\* trimmed text is longer than 2, at most maxElements of them
extractMessages(page) ==
    LET hits == {<<i, j>> \in (1..Len(ExtractionSelectors)) \X (1..Len(page)) :
                     /\ ExtractionSelectors[i] \in page[j].selectors
                     /\ Len(page[j].text) > 2}
    IN  IF Cardinality(hits) > MAX_ELEMENTS THEN MAX_ELEMENTS ELSE Cardinality(hits)

\* JSON text of the DOM snapshot: its timestamp in decimal, then the elements
RECURSIVE Decimal(_)
Decimal(n) == IF n < 10 THEN <<48 + n>> ELSE Append(Decimal(n \div 10), 48 + (n % 10))
RECURSIVE PageText(_)
PageText(page) == IF page = <<>> THEN <<>> ELSE Head(page).text \o PageText(Tail(page))
captureDOMSnapshot(page, t) == Decimal(t) \o PageText(page)

\* generateChecksum(data)
generateChecksum(str) ==
    IF str = <<>> THEN toString36(<<0, 0>>)
    ELSE toString36(Abs32(HashLoop(<<0, 0>>, str)))

\* performDeepScan(tab)
performDeepScan(page) ==
    /\ Cardinality(deepScans) < MaxDeepScans
    /\ deepScans' = deepScans \cup
           {[page |-> page, timestamp |-> now,
             messageCount |-> extractMessages(page),
             checksum |-> generateChecksum(captureDOMSnapshot(page, now))]}
    /\ UNCHANGED <<now, lastRead, lastSweep, msgIds, liveScan, hybrid, scanSys, kv, bg>>
    /\ UNCHANGED liveRest
    /\ UNCHANGED <<db, request, openTimer, openPromise, initialized, useFallback,
                   scans, fallbackScans, calls, nextCall, nextScanId, lastStore, dbBudget>>

NextDeep ==
    \/ \E page \in Pages : performDeepScan(page)
    \/ IdTick

SpecDeep == IdInit /\ [][NextDeep]_vars

\* ------------------------------------------- DeepScanCoordinator, one tab
\* hybrid.session is hybridSessions.get(tab.id); hybrid.live says whether the
\* LiveScanManager monitors the tab; hybrid.deep is what saveDeepScan stored;
\* hybrid.merges lists the sessions of the merged results saved so far.
\* DBHandler.saveDeepScan / getDeepScan / getLiveSession / saveMergedScan are
\* called but not defined in the sources: they store and return records.
MaxHybridCalls == 3
MaxCount == 1

\* a JavaScript value that is a number, undefined or NaN
Num(n) == [k |-> "number", v |-> n]
Undefined == [k |-> "undefined", v |-> 0]
NaN == [k |-> "NaN", v |-> 0]
JsAdd(a, b) == IF a.k = "number" /\ b.k = "number" THEN Num(a.v + b.v) ELSE NaN
KeepValue(x) == x
\* x || 0
OrZero(x) == IF x.k = "number" THEN x ELSE Num(0)

\* statistics of DeepScanCoordinator.mergeScanData(session, liveData)
coordinatorStatistics(deepScan, liveData) ==
    [totalMessages |-> JsAdd(deepScan.messageCount, liveData.messageCount),
     deepMessages |-> deepScan.messageCount,
     liveMessages |-> liveData.messageCount]

\* statistics of ScanSystem.mergeScanData(deepScanId, liveSessionId)
scanSystemStatistics(deepData, liveData) ==
    [totalMessages |-> JsAdd(OrZero(deepData.messageCount), OrZero(liveData.messageCount)),
     deepMessages |-> OrZero(deepData.messageCount),
     liveMessages |-> OrZero(liveData.messageCount)]

HybridUnchanged ==
    /\ UNCHANGED <<now, lastRead, lastSweep, msgIds, liveScan, deepScans, scanSys, kv, bg>>
    /\ UNCHANGED liveRest
    /\ UNCHANGED <<db, request, openTimer, openPromise, initialized, useFallback,
                   scans, fallbackScans, calls, nextCall, nextScanId, lastStore, dbBudget>>

\* cleanupHybridSession(tabId) applied to coordinator state h
cleanupHybridSession(h) ==
    IF h.session.status = "none" THEN h
    ELSE [h EXCEPT !.session.status = "completed", !.timers = @ + 1]

Finish(h, op, outcome) ==
    [h EXCEPT !.pc = "idle", !.last = [op |-> op, outcome |-> outcome]]

\* startHybridSession(tab) up to 'await executeDeepScan': createHybridSession
startHybridSession ==
    /\ hybrid.pc = "idle" /\ hybrid.calls < MaxHybridCalls
    /\ hybrid' = [hybrid EXCEPT
                     !.calls = @ + 1,
                     !.session = [status |-> "active", sid |-> hybrid.calls + 1,
                                  deepScanId |-> 0],
                     !.pc = "deep", !.last = [op |-> "none", outcome |-> "none"]]
    /\ HybridUnchanged

\* DBHandler.saveDeepScan(result): the result is stored under a new id
saveDeepScan(deep, id, count) == deep \cup {[id |-> id, messageCount |-> Num(count)]}

\* DBHandler.getDeepScan(id): the stored results with that id (none: null)
getDeepScan(deep, id) == {d \in deep : d.id = id}

\* executeDeepScan returned, with the result saved under a new id ("saved") or
\* with no dbHandler and so no id ("unsaved"), or threw ("fail")
deepScanDone(oc, count) ==
    /\ hybrid.pc = "deep"
    /\ hybrid' = CASE oc = "saved" ->
                       [hybrid EXCEPT !.deep = saveDeepScan(@, hybrid.calls, count),
                                      !.result = hybrid.calls, !.pc = "live"]
                  [] oc = "unsaved" -> [hybrid EXCEPT !.result = 0, !.pc = "live"]
                  [] OTHER -> Finish(cleanupHybridSession(hybrid), "start", "error")
    /\ HybridUnchanged

\* scanSystem.startLiveScan returned or threw (LiveScanManager.startMonitoring
\* cleans the tab's live session up before it rethrows), then the rest of
\* startHybridSession
liveStartDone(oc) ==
    /\ hybrid.pc = "live"
    /\ hybrid' =
         IF oc = "fail"
         THEN Finish(cleanupHybridSession([hybrid EXCEPT !.live = FALSE]), "start", "error")
         ELSE IF hybrid.session.status = "none"
         THEN Finish([hybrid EXCEPT !.live = TRUE], "start", "error")
         ELSE Finish([hybrid EXCEPT !.live = TRUE, !.session.deepScanId = hybrid.result],
                     "start", "ok")
    /\ HybridUnchanged

\* stopHybridSession(tab) up to 'await stopLiveScan'
stopHybridSession ==
    /\ hybrid.pc = "idle" /\ hybrid.calls < MaxHybridCalls
    /\ hybrid' =
         IF hybrid.session.status = "none"
         THEN [Finish(hybrid, "stop", "error") EXCEPT !.calls = @ + 1, !.wasActive = FALSE]
         ELSE [hybrid EXCEPT !.calls = @ + 1, !.pc = "stopLive",
                             !.stopSid = hybrid.session.sid,
                             !.result = hybrid.session.deepScanId,
                             !.wasActive = (hybrid.session.status = "active"),
                             !.last = [op |-> "none", outcome |-> "none"]]
    /\ HybridUnchanged

\* scanSystem.stopLiveScan returned or threw
liveStopDone(oc) ==
    /\ hybrid.pc = "stopLive"
    /\ hybrid' = IF oc = "ok" THEN [hybrid EXCEPT !.live = FALSE, !.pc = "merge"]
                 ELSE Finish(hybrid, "stop", "error")
    /\ HybridUnchanged

\* collectLiveScanData (never throws), mergeScanData (throws when the deep
\* scan is not found or the save fails), cleanupHybridSession
mergeDone(oc, count) ==
    /\ hybrid.pc = "merge"
    /\ LET found == getDeepScan(hybrid.deep, hybrid.result)
       IN  hybrid' =
             IF found = {} \/ oc = "fail" THEN Finish(hybrid, "stop", "error")
             ELSE LET deepScan == CHOOSE d \in found : TRUE
                      statistics == coordinatorStatistics(deepScan, [messageCount |-> Num(count)])
                  IN  Finish(cleanupHybridSession(
                                 [hybrid EXCEPT !.merged = @ \cup {statistics},
                                                !.merges = Append(@, hybrid.stopSid)]),
                             "stop", "ok")
    /\ HybridUnchanged

\* the 5 s timer of cleanupHybridSession: hybridSessions.delete(tabId)
hybridTimer ==
    /\ hybrid.timers > 0
    /\ hybrid' = [hybrid EXCEPT !.timers = @ - 1,
                     !.session = [status |-> "none", sid |-> 0, deepScanId |-> 0]]
    /\ HybridUnchanged

\* ScanSystem.mergeScanData(deepScanId, liveSessionId) on a saved deep scan and
\* a live session record with or without a messageCount
scanSystemMerge(count) ==
    /\ hybrid.pc = "idle" /\ hybrid.deep # {}
    /\ \E deepData \in hybrid.deep :
          hybrid' = [hybrid EXCEPT !.merged = @ \cup
                        {scanSystemStatistics(deepData, [messageCount |-> count])}]
    /\ HybridUnchanged

NextHybrid ==
    \/ startHybridSession
    \/ \E oc \in {"saved", "unsaved", "fail"}, n \in 0..MaxCount : deepScanDone(oc, n)
    \/ \E oc \in {"ok", "fail"} : liveStartDone(oc)
    \/ stopHybridSession
    \/ \E oc \in {"ok", "fail"} : liveStopDone(oc)
    \/ \E oc \in {"ok", "fail"}, n \in 0..MaxCount : mergeDone(oc, n)
    \/ hybridTimer
    \/ \E count \in {Undefined} \cup {Num(n) : n \in 0..MaxCount} : scanSystemMerge(count)

SpecHybrid == IdInit /\ [][NextHybrid]_vars

\* ------------------------------------------------- ScanSystem and the bridge
\* scanSys.dbScans / dbLive are the timestamps of the DBHandler's scans and
\* live_data tables, scanSys.scanResults / liveScanData those of the two lists
\* in key-value storage; scanSys.clock is Date.now(), in units of Day per day.
MaxSysRecords == 2
MaxSysTicks == 3
MaxSysCalls == 2
MaxAgeDays == 2
Day == 2
\* the clock starts late enough after the epoch for a cutoff to be positive
Epoch == MaxAgeDays * Day * Day + 2

SysUnchanged ==
    /\ UNCHANGED <<now, lastRead, lastSweep, msgIds, liveScan, deepScans, hybrid, kv, bg>>
    /\ UNCHANGED liveRest
    /\ UNCHANGED <<db, request, openTimer, openPromise, initialized, useFallback,
                   scans, fallbackScans, calls, nextCall, nextScanId, lastStore, dbBudget>>

Stores == {"dbScans", "dbLive", "scanResults", "liveScanData"}
SysRecords(y) == Len(y.dbScans) + Len(y.dbLive) + Len(y.scanResults) + Len(y.liveScanData)

\* ScanSystem.init(), with or without a DBHandler class in scope
scanSystemInit(withDb) ==
    /\ ~scanSys.isInitialized
    /\ scanSys' = [scanSys EXCEPT !.isInitialized = TRUE, !.dbHandler = withDb,
                                  !.clock = Epoch]
    /\ SysUnchanged

sysTick ==
    /\ scanSys.isInitialized /\ scanSys.clock < Epoch + MaxSysTicks
    /\ scanSys' = [scanSys EXCEPT !.clock = @ + 1]
    /\ SysUnchanged

\* a record stamped Date.now() is written to one of the four stores
sysStore(where) ==
    /\ scanSys.isInitialized /\ SysRecords(scanSys) < MaxSysRecords
    /\ where \in {"dbScans", "dbLive"} => scanSys.dbHandler
    /\ scanSys' = [scanSys EXCEPT ![where] = Append(@, scanSys.clock)]
    /\ SysUnchanged

\* DBHandler.cleanupOldData(retentionDays) on one table at time t; it returns
\* nothing
dbCleanupOldData(table, t, retentionDays) ==
    LET cutoffDate == t - retentionDays * Day
    IN  SelectSeq(table, LAMBDA ts : ~(ts < cutoffDate))

\* the storage filter of ScanSystem.cleanupOldData
keepNewer(list, cutoffTime) == SelectSeq(list, LAMBDA ts : ts > cutoffTime)

\* ScanSystem.cleanupOldData(maxAgeDays)
cleanupOldData(maxAgeDays) ==
    /\ scanSys.isInitialized /\ scanSys.calls < MaxSysCalls
    /\ LET cutoffTime == scanSys.clock - maxAgeDays * Day
           c0 == Num(0)
           c1 == IF scanSys.dbHandler THEN JsAdd(c0, Undefined) ELSE c0
           dbS == IF scanSys.dbHandler
                  THEN dbCleanupOldData(scanSys.dbScans, scanSys.clock, cutoffTime)
                  ELSE scanSys.dbScans
           dbL == IF scanSys.dbHandler
                  THEN dbCleanupOldData(scanSys.dbLive, scanSys.clock, cutoffTime)
                  ELSE scanSys.dbLive
           newScans == keepNewer(scanSys.scanResults, cutoffTime)
           newLiveData == keepNewer(scanSys.liveScanData, cutoffTime)
           c2 == IF Len(newScans) # Len(scanSys.scanResults)
                 THEN JsAdd(c1, Num(Len(scanSys.scanResults) - Len(newScans))) ELSE c1
           c3 == IF Len(newLiveData) # Len(scanSys.liveScanData)
                 THEN JsAdd(c2, Num(Len(scanSys.liveScanData) - Len(newLiveData))) ELSE c2
       IN  scanSys' = [scanSys EXCEPT
                          !.calls = @ + 1,
                          !.dbScans = dbS, !.dbLive = dbL,
                          !.scanResults = newScans, !.liveScanData = newLiveData,
                          !.cleanup = [ran |-> TRUE, cutoffTime |-> cutoffTime,
                                       cleanedCount |-> c3]]
    /\ SysUnchanged

ScanOps == {"deepScan", "liveScanStart", "liveScanStop"}

\* ScanSystem.executeDeepScan / startLiveScan / stopLiveScan: the module the
\* call is delegated to returns ("ok") or throws ("throws")
scanSystemCall(op, fate) ==
    /\ scanSys.calls < MaxSysCalls
    /\ scanSys' = [scanSys EXCEPT
                      !.calls = @ + 1,
                      !.last = IF scanSys.isInitialized /\ fate = "ok"
                               THEN [op |-> op, via |-> "ScanSystem",
                                     outcome |-> "resolved", success |-> TRUE]
                               ELSE [op |-> op, via |-> "ScanSystem",
                                     outcome |-> "rejected", success |-> FALSE]]
    /\ SysUnchanged

\* SafeExec(fn, fallback, timeoutMs): fn returns, throws, or is still
\* pending when the timeout fires
SafeExec(fate) ==
    IF fate = "ok" THEN [outcome |-> "resolved", success |-> TRUE]
    ELSE [outcome |-> "resolved", success |-> FALSE]

\* ChatSaveProBridge.deepScan / liveScanStart / liveScanStop
bridgeCall(op, fate) ==
    /\ scanSys.calls < MaxSysCalls
    /\ scanSys' = [scanSys EXCEPT
                      !.calls = @ + 1,
                      !.last = [op |-> op, via |-> "bridge",
                                outcome |-> SafeExec(fate).outcome,
                                success |-> SafeExec(fate).success]]
    /\ SysUnchanged

NextSys ==
    \/ \E withDb \in BOOLEAN : scanSystemInit(withDb)
    \/ sysTick
    \/ \E where \in Stores : sysStore(where)
    \/ \E maxAgeDays \in 0..MaxAgeDays : cleanupOldData(maxAgeDays)
    \/ \E op \in ScanOps, fate \in {"ok", "throws"} : scanSystemCall(op, fate)
    \/ \E op \in ScanOps, fate \in {"ok", "throws", "timeout"} : bridgeCall(op, fate)

SpecSys == IdInit /\ [][NextSys]_vars

\* ------------------------------------------------------------ StorageManager
\* One key.  kv.cache is cache.get(key), kv.local the value of the key in
\* chrome.storage.local (0: absent), kv.q the chrome.storage.local requests
\* whose callbacks have not fired.  History: kv.gen counts the setItem /
\* removeItem / clear calls, kv.settled is the value the last of them
\* established when it resolved (-1: none resolved since the last call), a
\* request's `read` says that getItem returned its value while it was in flight.
MaxKvCalls == 4
MaxKvQueue == 2
MaxKvFaults == 1
MaxKvValue == 2

KvUnchanged ==
    /\ UNCHANGED <<now, lastRead, lastSweep, msgIds, liveScan, deepScans, hybrid, scanSys, bg>>
    /\ UNCHANGED liveRest
    /\ UNCHANGED <<db, request, openTimer, openPromise, initialized, useFallback,
                   scans, fallbackScans, calls, nextCall, nextScanId, lastStore, dbBudget>>

KvOp(op, value, gen, expected) ==
    [op |-> op, value |-> value, gen |-> gen, expected |-> expected, read |-> FALSE]
KvCall == kv.calls < MaxKvCalls /\ Len(kv.q) < MaxKvQueue

\* setItem(key, value, options) up to chrome.storage.local.set
setItem(value, ttl) ==
    /\ KvCall
    /\ kv' = [kv EXCEPT
                 !.calls = @ + 1, !.gen = @ + 1, !.settled = -1, !.last = NoKvResult,
                 !.cache = [has |-> TRUE, value |-> value, ttl |-> ttl, expired |-> FALSE],
                 !.q = Append(@, KvOp("set", value, kv.gen + 1, -1))]
    /\ KvUnchanged

\* getItem(key): answered from the cache, or up to chrome.storage.local.get
getItem ==
    /\ KvCall
    /\ IF kv.cache.has /\ ~(kv.cache.ttl /\ kv.cache.expired)
       THEN kv' = [kv EXCEPT
                      !.calls = @ + 1,
                      !.q = [i \in 1..Len(kv.q) |->
                                IF /\ kv.q[i].op = "set"
                                   /\ kv.q[i].value = kv.cache.value
                                   /\ kv.local # kv.cache.value
                                THEN [kv.q[i] EXCEPT !.read = TRUE] ELSE kv.q[i]],
                      !.last = [op |-> "get", result |-> kv.cache.value,
                                checked |-> kv.settled # -1, expected |-> kv.settled,
                                leaked |-> FALSE]]
       ELSE kv' = [kv EXCEPT
                      !.calls = @ + 1, !.cache = NoItem, !.last = NoKvResult,
                      !.q = Append(@, KvOp("get", 0, kv.gen, kv.settled))]
    /\ KvUnchanged

\* removeItem(key) / clear() up to chrome.storage.local.remove / clear
removeItem(op) ==
    /\ KvCall
    /\ kv' = [kv EXCEPT
                 !.calls = @ + 1, !.gen = @ + 1, !.settled = -1, !.last = NoKvResult,
                 !.cache = NoItem,
                 !.q = Append(@, KvOp(op, 0, kv.gen + 1, -1))]
    /\ KvUnchanged

\* Date.now() - cached.timestamp reaches cached.ttl
ttlExpires ==
    /\ kv.cache.has /\ kv.cache.ttl /\ ~kv.cache.expired
    /\ kv' = [kv EXCEPT !.cache.expired = TRUE, !.last = NoKvResult]
    /\ KvUnchanged

\* the callback of the oldest chrome.storage.local request fires ("fail":
\* chrome.runtime.lastError is set) and the awaiting function runs to its end
storageCallback(oc) ==
    /\ kv.q # <<>>
    /\ oc = "fail" => kv.faults < MaxKvFaults
    /\ LET o == Head(kv.q)
           k1 == [kv EXCEPT !.q = Tail(@),
                            !.faults = IF oc = "fail" THEN @ + 1 ELSE @]
           latest == o.gen = kv.gen
       IN  kv' =
             CASE o.op = "set" /\ oc = "ok" ->
                    [k1 EXCEPT !.local = o.value,
                               !.settled = IF latest THEN o.value ELSE @,
                               !.last = [NoKvResult EXCEPT !.op = "set"]]
               [] o.op = "set" /\ oc = "fail" ->
                    [k1 EXCEPT !.cache = NoItem,
                               !.last = [NoKvResult EXCEPT !.op = "setFailed",
                                                           !.result = o.value,
                                                           !.leaked = o.read]]
               [] o.op = "get" ->
                    LET value == IF oc = "ok" THEN kv.local ELSE 0
                    IN  [k1 EXCEPT
                           !.cache = IF value # 0
                                     THEN [has |-> TRUE, value |-> value, ttl |-> FALSE,
                                           expired |-> FALSE]
                                     ELSE @,
                           !.last = [op |-> "get", result |-> value,
                                     checked |-> o.expected # -1 /\ latest,
                                     expected |-> o.expected, leaked |-> FALSE]]
               [] OTHER ->
                    IF oc = "ok"
                    THEN [k1 EXCEPT !.local = 0,
                                    !.settled = IF latest THEN 0 ELSE @,
                                    !.last = [NoKvResult EXCEPT !.op = o.op]]
                    ELSE [k1 EXCEPT !.last = [NoKvResult EXCEPT !.op = "removeFailed"]]
    /\ KvUnchanged

NextKv ==
    \/ \E value \in 1..MaxKvValue, ttl \in BOOLEAN : setItem(value, ttl)
    \/ getItem
    \/ \E op \in {"remove", "clear"} : removeItem(op)
    \/ ttlExpires
    \/ \E oc \in {"ok", "fail"} : storageCallback(oc)

SpecKv == IdInit /\ [][NextKv]_vars

\* -------------------------------------------- SafeExec around performDeepScan
\* bg.ops[i] is the i-th ChatSaveProBridge.deepScan call.  The bridge wraps
\* BackgroundController.performDeepScan in SafeExec, and performDeepScan wraps
\* its body in SafeExec again: `outer` and `inner` are the two timeout timers
\* (armed, cleared by clearTimeout, or fired), `store` is the db.storeScan call
\* the body awaits, `result` what the bridge call resolved to and `byTimeout`
\* whether it did so because a timeout fired.  bg.scans holds the calls whose
\* storeScan stored a record.
MaxBgCalls == 3

BgUnchanged ==
    /\ UNCHANGED <<now, lastRead, lastSweep, msgIds, liveScan, deepScans, hybrid, scanSys, kv>>
    /\ UNCHANGED liveRest
    /\ UNCHANGED <<db, request, openTimer, openPromise, initialized, useFallback,
                   scans, fallbackScans, calls, nextCall, nextScanId, lastStore, dbBudget>>

\* ChatSaveProBridge.deepScan: SafeExec arms its timer and calls
\* performDeepScan, whose SafeExec arms a second timer and calls db.storeScan
bridgeDeepScan ==
    /\ Len(bg.ops) < MaxBgCalls
    /\ bg' = [bg EXCEPT !.ops = Append(@, [outer |-> "armed", inner |-> "armed",
                                            store |-> "pending", result |-> "none",
                                            byTimeout |-> FALSE])]
    /\ BgUnchanged

\* db.storeScan settles.  Nothing cancels it: it runs whether or not a timeout
\* has already settled the race.  If the inner race is still open it settles
\* with the body's value and, through it, the outer race and the bridge call.
dbStoreScanDone(i, oc) ==
    /\ i \in 1..Len(bg.ops)
    /\ bg.ops[i].store = "pending"
    /\ LET o == bg.ops[i]
           value == IF oc = "ok" THEN "success" ELSE "failure"
           o1 == [o EXCEPT !.store = IF oc = "ok" THEN "stored" ELSE "failed"]
           o2 == IF o.inner = "armed" THEN [o1 EXCEPT !.inner = "cleared"] ELSE o1
           o3 == IF o.inner = "armed" /\ o.outer = "armed"
                 THEN [o2 EXCEPT !.outer = "cleared", !.result = value]
                 ELSE o2
       IN  bg' = [bg EXCEPT !.ops[i] = o3,
                            !.scans = IF oc = "ok" THEN @ \cup {i} ELSE @]
    /\ BgUnchanged

\* a SafeExec timer fires: the race rejects and SafeExec returns its fallback,
\* {success: false}.  Both timers have the same delay and the outer one is
\* set first, so it fires first.
safeExecTimeout(i, which) ==
    /\ i \in 1..Len(bg.ops)
    /\ LET o == bg.ops[i]
       IN  IF which = "outer"
           THEN /\ o.outer = "armed"
                /\ bg' = [bg EXCEPT !.ops[i] = [o EXCEPT !.outer = "fired",
                                                         !.result = "failure",
                                                         !.byTimeout = TRUE]]
           ELSE /\ o.inner = "armed" /\ o.outer = "fired"
                /\ bg' = [bg EXCEPT !.ops[i] = [o EXCEPT !.inner = "fired"]]
    /\ BgUnchanged

NextBg ==
    \/ bridgeDeepScan
    \/ \E i \in 1..MaxBgCalls, oc \in {"ok", "fail"} : dbStoreScanDone(i, oc)
    \/ \E i \in 1..MaxBgCalls, which \in {"outer", "inner"} : safeExecTimeout(i, which)

SpecBg == IdInit /\ [][NextBg]_vars

\* =================================================================== claims
ActiveEntries(t) == {e \in sessions : e.tabId = t /\ heap[e.sid].status = "active"}

MemActive(s) == \E e \in sessions : e.sid = s /\ heap[s].status = "active"
StoreActive(s) == KSessions \in DOMAIN chromeLocal /\ s \in ActiveIn(chromeLocal[KSessions])

\* C2: a session once recorded as stopped or expired is never active again:
\* not in memory (also after restoreSessions), and not in the persisted
\* table once the table showed it stopped or expired.
C2_NoResurrection ==
    /\ \A s \in endedMem \cup endedStore : ~MemActive(s)
    /\ \A s \in endedStore : ~StoreActive(s)

\* C3: startMonitoring on a tab with an ACTIVE session returns the existing
\* sessionId and leaves the session and its buffer unchanged.
C3_StartIdempotent ==
    (lastRet.op = "start" /\ lastRet.preSid # 0) =>
        /\ lastRet.success
        /\ lastRet.sid = lastRet.preSid
        /\ MapGet(sessions, lastRet.tab) = lastRet.preSid
        /\ heap[lastRet.preSid] = lastRet.preObj
        /\ messageBuffer[lastRet.tab] = lastRet.preBuf

ChunkIssued(sid, msgs) ==
    LET c == [sessionId |-> sid, messages |-> msgs]
        InSeq(q) == \E i \in 1..Len(q) : q[i] = c
    IN  \/ KChunks \in DOMAIN chromeLocal /\ InSeq(chromeLocal[KChunks])
        \/ KChunks \in DOMAIN cache /\ InSeq(cache[KChunks])
        \/ \E i \in 1..Len(chromeQ) :
              /\ chromeQ[i].k.kind = "chunk"
              /\ chromeQ[i].k.sid = sid /\ chromeQ[i].k.msgs = msgs

\* C4: after stopMonitoring on a tab with an ACTIVE session, for every
\* outcome of the call, the buffer has been flushed as a chunk, the session
\* is marked stopped and isMonitoring(tab) is false.
C4_StopAlwaysStops ==
    (lastRet.op = "stop" /\ lastRet.preSid # 0) =>
        /\ ~isMonitoring(lastRet.tab)
        /\ heap[lastRet.preSid].status = "stopped"
        /\ lastRet.preBuf # <<>> => ChunkIssued(lastRet.preSid, lastRet.preBuf)

\* C5: stop for a tab without an active session returns {success:false}.
C5_StopWithoutSession ==
    (lastRet.op = "stop" /\ lastRet.preSid = 0) => ~lastRet.success

Ceil(n, d) == (n + d - 1) \div d

\* C6: fragments delivered one at a time and then a stopMonitoring call:
\* exactly ceil(N / maxBufferSize) chunk flushes have happened when the call
\* has returned, and between batches the buffer is shorter than
\* maxBufferSize.
C6_FlushesAfterStop ==
    /\ \A t \in DOMAIN messageBuffer : Len(messageBuffer[t]) < maxBufferSize
    /\ (lastRet.op = "stop" /\ lastRet.preSid # 0 /\ stats[lastRet.preSid].single) =>
          stats[lastRet.preSid].flushes =
              Ceil(stats[lastRet.preSid].frags, maxBufferSize)

\* what does hold: a flush each time the buffer reaches maxBufferSize, and
\* one more for a non-empty remainder once cleanupSession has run
FlushCountWhenEnded ==
    /\ \A t \in DOMAIN messageBuffer : Len(messageBuffer[t]) < maxBufferSize
    /\ \A s \in DOMAIN stats :
          stats[s].single =>
             IF s \in endedMem
             THEN stats[s].flushes = Ceil(stats[s].frags, maxBufferSize)
             ELSE stats[s].flushes = stats[s].frags \div maxBufferSize

DurableWrites ==
    {<<"data", i>> : i \in 1..(IF KData \in DOMAIN chromeLocal
                               THEN Len(chromeLocal[KData]) ELSE 0)}
    \cup {<<"chunk", i>> : i \in 1..(IF KChunks \in DOMAIN chromeLocal
                                     THEN Len(chromeLocal[KChunks]) ELSE 0)}
WriteHas(w, f) ==
    LET ms == IF w[1] = "data" THEN chromeLocal[KData][w[2]].messages
              ELSE chromeLocal[KChunks][w[2]].messages
    IN  \E j \in 1..Len(ms) : ms[j] = f

\* C8: no fragment identity appears in more than one durable write
\* (live-data list entry or flushed chunk).
C8_WrittenOnce ==
    \A f \in 1..10 : Cardinality({w \in DurableWrites : WriteHas(w, f)}) <= 1

\* C7: a storeScan of a record that repeats a stored one (same URL, title
\* overlap >= 0.8, within 30 minutes) returns the stored record's id and adds
\* no record, on either backend.
C7_DuplicateReturnsFirstId ==
    (lastStore.outcome = "id" /\ lastStore.dup # {}) =>
        (lastStore.id \in lastStore.dup /\ ~lastStore.added)

\* C9: once the 10 s timer of openDatabase has fired on a pending open,
\* init has completed with the manager initialized on the fallback store.
C9_TimeoutGivesFallback ==
    openTimer = "fired" => (initialized /\ useFallback)

\* C10: a storeScan whose primary insert failed returns the id of the record
\* it wrote to the fallback store, with useFallback true; it ends in an
\* error only when the fallback read or write failed as well.
C10_InsertFailureFallsBack ==
    lastStore.insertFailed =>
        \/ lastStore.outcome = "id" /\ lastStore.stored /\ useFallback
        \/ lastStore.outcome = "error" /\ lastStore.fbFailed


\* C11: with the fallback engaged, every public operation is served by the
\* fallback store (or does nothing) and never reaches for the primary
\* database.
C11_FallbackServesAll ==
    lastRead.fb => lastRead.backend \in {"fallback", "skipped"}

\* useFallback, once true, stays true (the part of C11 that holds)
FallbackSticky == [][useFallback => useFallback']_vars

\* C19: a read operation never rejects or throws to its caller.
C19_ReadsNeverFail ==
    lastRead.op \in {"getScans", "getScansByUrl", "getScanCount"} =>
        lastRead.outcome # "error"

NewestFirst(list) ==
    \A i \in 1..Len(list), j \in 1..Len(list) :
        i < j => list[i].timestamp >= list[j].timestamp

\* the step in which call c returns the id of a record written to the fallback
FallbackStored(c) ==
    /\ c.pc = "fbSet"
    /\ c \notin calls'
    /\ lastStore'.cid = c.cid
    /\ lastStore'.outcome = "id"

\* C12: after every successful storeScan on the fallback store the list has
\* at most FALLBACK_CAP records, newest first, and it is exactly the
\* FALLBACK_CAP newest of the previous list plus the new record.
C12_FallbackKeepsNewest ==
    [][\A c \in calls :
          FallbackStored(c) =>
              /\ Len(fallbackScans') <= FALLBACK_CAP
              /\ NewestFirst(fallbackScans')
              /\ fallbackScans' =
                     Take(SortDesc(Append(fallbackScans, c.san)), FALLBACK_CAP)]_vars

\* the bound and the order alone hold in every state
FallbackBounded ==
    Len(fallbackScans) <= FALLBACK_CAP /\ NewestFirst(fallbackScans)

Swept == lastSweep.before \ scans

\* C13: every record a sweep deleted is at most as new as every record it
\* kept.
C13_SweepDeletesOldest ==
    lastSweep.ran =>
        \A d \in Swept, r \in scans : d.timestamp <= r.timestamp

C16_SizeUnderCeiling ==
    lastSweep.op = "performMaintenance" => estimateDBSize(scans) <= MaintMaxSize

\* the step in which call c's performMaintenance on the primary store completes
MaintenanceCompleted(c) ==
    /\ c.pc = "maint"
    /\ c \notin calls'
    /\ ~useFallback

\* C15: when performMaintenance completes, the primary store holds at most
\* CLEANUP_THRESHOLD records.
C15_CountWithinThreshold ==
    [][\A c \in calls :
          MaintenanceCompleted(c) => Cardinality(scans') <= CLEANUP_THRESHOLD]_vars

\* a storeScan call with invalid input that is waiting for the init() it started
InvalidAwaitingInit ==
    {c \in calls : c.pc = "init" /\ c.opened /\ ~validateScanData(c.rec)}

\* C17: a storeScan call with invalid input has no side effect; in particular
\* useFallback, false when the call was made, is still false while the call
\* is in progress.
C17_InvalidInputNoSideEffect ==
    InvalidAwaitingInit # {} => ~useFallback

StoredRecords == scans \cup {fallbackScans[i] : i \in 1..Len(fallbackScans)}

\* C18: no stored record carries a credential-like field, at any depth.
C18_NoCredentialStored == \A r \in StoredRecords : r.cred = "none"

\* what sanitizeScanData does achieve: no truthy top-level credential field
NoTopLevelCredential == \A r \in StoredRecords : r.cred # "top"

SameFragment(a, b) ==
    /\ substring(a.content) = substring(b.content)
    /\ a.position = b.position
    /\ a.platform = b.platform

\* C20: two fragments equal in content prefix, position and platform receive
\* the same id, whenever each id is computed.
C20_IdDependsOnFragmentOnly ==
    \A a \in msgIds, b \in msgIds : SameFragment(a, b) => a.id = b.id

\* only the hash part of the id is a function of the three components
HashPartDependsOnFragmentOnly ==
    \A a \in msgIds, b \in msgIds : SameFragment(a, b) => a.id[1] = b.id[1]

\* C21: within one page load no fragment is sent in more than one
\* live_update chunk.
C21_FragmentSentOnce ==
    \A i \in 1..Len(liveScan.sent), j \in 1..Len(liveScan.sent) :
        (i < j /\ liveScan.sent[i].scanType = "live_update"
               /\ liveScan.sent[j].scanType = "live_update")
            => liveScan.sent[i].fragments \cap liveScan.sent[j].fragments = {}

Extractable(page) == {j \in 1..Len(page) : Len(page[j].text) > 2}

\* C22: a deep scan's messageCount is the number of distinct extractable
\* elements of the page.
C22_CountsEachElementOnce ==
    \A r \in deepScans : r.messageCount = Cardinality(Extractable(r.page))

\* C23: two deep scans of the same page have the same checksum.
C23_ChecksumDeterministic ==
    \A a \in deepScans, b \in deepScans : a.page = b.page => a.checksum = b.checksum

\* C24: every merged result has totalMessages = deepMessages + liveMessages
\* (as numbers: NaN equals nothing).
C24_TotalIsSum ==
    \A st \in hybrid.merged :
        /\ st.totalMessages.k = "number"
        /\ st.deepMessages.k = "number" /\ st.liveMessages.k = "number"
        /\ st.totalMessages.v = st.deepMessages.v + st.liveMessages.v

C24_Witness ==
    /\ hybrid.last = [op |-> "stop", outcome |-> "ok"]
    /\ \E st \in hybrid.merged : st.liveMessages.v > 0 /\ st.deepMessages.v > 0
    /\ \E st \in hybrid.merged : st.totalMessages.v = 0

ActiveHybrid == hybrid.session.status = "active"

\* C25: after a failed startHybridSession the tab has no active hybrid
\* session and no active live session.
C25_FailedStartLeavesNothingActive ==
    hybrid.last = [op |-> "start", outcome |-> "error"] =>
        (~ActiveHybrid /\ ~hybrid.live)

\* C26: once stopHybridSession, called on a running hybrid session, has
\* come to its end, the session is no longer active and is removed or about
\* to be removed by the grace timer.
C26_StopRetiresSession ==
    (hybrid.last.op = "stop" /\ hybrid.wasActive) =>
        (~ActiveHybrid /\ (hybrid.session.status = "none" \/ hybrid.timers > 0))

Older(list, cutoffTime) == SelectSeq(list, LAMBDA ts : ts < cutoffTime)
NotOlder(list, cutoffTime) == SelectSeq(list, LAMBDA ts : ~(ts < cutoffTime))

\* C27: right after cleanupOldData every store holds exactly its records
\* that are not older than the cutoff, and cleanedCount is the number removed.
C27_RemovesExactlyOlder ==
    [][\A maxAgeDays \in 0..MaxAgeDays : cleanupOldData(maxAgeDays) =>
          LET c == scanSys'.cleanup
          IN  /\ \A st \in Stores : scanSys'[st] = NotOlder(scanSys[st], c.cutoffTime)
              /\ c.cleanedCount.k = "number"
              /\ c.cleanedCount.v = Len(Older(scanSys.dbScans, c.cutoffTime))
                                    + Len(Older(scanSys.dbLive, c.cutoffTime))
                                    + Len(Older(scanSys.scanResults, c.cutoffTime))
                                    + Len(Older(scanSys.liveScanData, c.cutoffTime))]_vars

\* C28: a capture operation, through the bridge or through the ScanSystem,
\* never rejects: a failure resolves to {success: false, error}.
C28_CaptureNeverRejects == scanSys.last.outcome # "rejected"

\* C29: when stopMonitoring returns success, every chunk write that was in
\* flight when it was called has completed.
C29_StopAwaitsInFlightChunk ==
    [][\A t \in Tabs :
          stopMonitoringReply(t, "ok") =>
              \A m \in tabMsgs :
                  (m.tab = t /\ m.action = "STOP_LIVE_SCAN") =>
                      m.inFlight \cap InFlightChunks(t) = {}]_vars

ChunkDurable(k) ==
    /\ KChunks \in DOMAIN chromeLocal'
    /\ \E i \in 1..Len(chromeLocal'[KChunks]) :
          /\ chromeLocal'[KChunks][i].sessionId = k.sid
          /\ chromeLocal'[KChunks][i].messages = k.msgs
FragmentPending(k, f) ==
    \/ /\ k.tab \in DOMAIN messageBuffer'
       /\ \E j \in 1..Len(messageBuffer'[k.tab]) : messageBuffer'[k.tab][j] = f
    \/ \E i \in 1..Len(chromeQ') :
          /\ chromeQ'[i].k.kind = "chunk" /\ chromeQ'[i].k.sid = k.sid
          /\ \E j \in 1..Len(chromeQ'[i].k.msgs) : chromeQ'[i].k.msgs[j] = f

\* C30: when the write of a flushed chunk comes back from storage, either the
\* whole chunk is durable or each of its fragments is pending again (in the
\* session's buffer or in a chunk write under way).
C30_FlushNeverLoses ==
    [][\A oc \in {"ok", "fail"} :
          (chromeSetDone(oc) /\ Head(chromeQ).k.kind = "chunk") =>
              LET k == Head(chromeQ).k
              IN  \/ ChunkDurable(k)
                  \/ \A j \in 1..Len(k.msgs) : FragmentPending(k, k.msgs[j])]_vars

\* C31: when the inactivity sweep runs, every active session idle for more
\* than the inactivity window has its buffer flushed and ends in state
\* 'expired'; every other session is left as it was.
C31_SweepExpiresIdle ==
    [][cleanupInactiveSessions =>
          \A t \in Tabs :
              IF t \in Inactive
              THEN /\ heap'[MapGet(sessions, t)].status = "expired"
                   /\ (t \in DOMAIN messageBuffer /\ Len(messageBuffer[t]) > 0) =>
                          \E i \in 1..Len(chromeQ') :
                              /\ chromeQ'[i].k.kind = "chunk"
                              /\ chromeQ'[i].k.msgs = messageBuffer[t]
              ELSE MapHas(sessions, t) =>
                      /\ MapHas(sessions', t)
                      /\ MapGet(sessions', t) = MapGet(sessions, t)
                      /\ heap'[MapGet(sessions, t)] = heap[MapGet(sessions, t)]]_vars

\* what the sweep does: the idle sessions end as 'stopped'
SweepStopsIdle ==
    [][cleanupInactiveSessions =>
          \A t \in Inactive : heap'[MapGet(sessions, t)].status = "stopped"]_vars

Persisted == IF KSessions \in DOMAIN chromeLocal THEN chromeLocal[KSessions] ELSE EmptyMap
RestoreRuns ==
    /\ \A i \in 1..Len(chromeQ) : chromeQ[i].k.kind # "restoreDone"
    /\ \E i \in 1..Len(chromeQ') : chromeQ'[i].k.kind = "restoreDone"
RestoreEnds ==
    /\ chromeQ # <<>> /\ Head(chromeQ).k.kind = "restoreDone"
    /\ isInitialized' /\ ~isInitialized

\* C32: when init restores the sessions, the sessions in memory are exactly
\* the persisted 'active' ones at most one hour old, and once init has ended
\* no session older than one hour is persisted as 'active'.
C32_RestoreWithinHour ==
    [][/\ RestoreRuns =>
             sessions' = {[tabId |-> ParseInt(kk), sid |-> Persisted[kk].sessionId] :
                            kk \in {x \in DOMAIN Persisted :
                                      /\ Persisted[x].status = "active"
                                      /\ now - Persisted[x].lastActivity
                                             <= RESTORE_MAX_AGE_MIN}}
       /\ RestoreEnds =>
             LET P == IF KSessions \in DOMAIN chromeLocal' THEN chromeLocal'[KSessions]
                      ELSE EmptyMap
             IN  \A kk \in DOMAIN P :
                    P[kk].status = "active" =>
                        now - P[kk].lastActivity <= RESTORE_MAX_AGE_MIN]_vars

\* C33: a getItem issued after setItem(k, v) has resolved, with no setItem,
\* removeItem or clear called since, returns v; after removeItem has resolved
\* it returns the default.
C33_RoundTrip == kv.last.checked => kv.last.result = kv.last.expected

\* C40: a value whose setItem fails has not been returned by a getItem while
\* that write was in flight.
C40_OnlyDurableValuesRead == ~(kv.last.op = "setFailed" /\ kv.last.leaked)

C35_TimerSparesNewerSession ==
    [][hybridTimer => hybrid.session.status # "active"]_vars

\* C36: when a storeScan on the fallback store reports success, every record
\* stored by the calls that reported success before it is still in the list
\* (the list being below its cap, nothing is evicted).
C36_FallbackWritesSerialized ==
    [][\A c \in calls :
          (FallbackStored(c) /\ Len(fallbackScans) < FALLBACK_CAP) =>
              \A i \in 1..Len(fallbackScans) :
                  \E j \in 1..Len(fallbackScans') :
                      fallbackScans'[j].id = fallbackScans[i].id]_vars

\* C37: a failed startMonitoring on a tab with an active session leaves that
\* session active, with the same id and the same buffered fragments.
C37_FailedStartKeepsSession ==
    (lastRet.op = "start" /\ ~lastRet.success /\ lastRet.preSid # 0) =>
        /\ isMonitoring(lastRet.tab)
        /\ MapGet(sessions, lastRet.tab) = lastRet.preSid
        /\ lastRet.tab \in DOMAIN messageBuffer
        /\ messageBuffer[lastRet.tab] = lastRet.preBuf

\* C38: in the step in which storeScan returns an id, a record with that id
\* is in the active store.
C38_ReturnedIdIsStored ==
    [][(lastStore' # lastStore /\ lastStore'.outcome = "id") =>
          (IF useFallback'
           THEN \E i \in 1..Len(fallbackScans') : fallbackScans'[i].id = lastStore'.id
           ELSE \E r \in scans' : r.id = lastStore'.id)]_vars

\* C39: once a bridge deepScan call has resolved to its failure value because
\* a SafeExec timeout fired, the wrapped operation stores no scan record.
C39_TimedOutCallStoresNothing ==
    [][\A i \in 1..Len(bg.ops) :
          (bg.ops[i].byTimeout /\ bg.ops[i].result = "failure") =>
              (i \in bg.scans' => i \in bg.scans)]_vars

TypeOK == isInitialized \in BOOLEAN
====
